---- MODULE Spec2Model ----
(***************************************************************************)
(* Model of the Ricoh camera controller: the difference engine (utils.ts), *)
(* the event-key map (EventMap.ts), the protocol adapters' poll-and-diff   *)
(* cycle (GR2Adapter.ts, gr3/GR3Adapter.ts) and the controller facade      *)
(* (the RicohCameraController class).                                      *)
(*                                                                         *)
(* JavaScript values are tagged records, so that values of different       *)
(* JavaScript types can be compared:                                       *)
(*   [scalar |-> s]   a string / number / boolean, written as a string     *)
(*   [list |-> <<..>>] an array                                            *)
(*   [obj |-> f]      a nested mapping, f a function from keys to values   *)
(*   [undefined |-> TRUE], [null |-> TRUE]                                 *)
(* A snapshot (the JSON body of /v1/props) is a function from property     *)
(* names to such values.                                                   *)
(***************************************************************************)
EXTENDS Integers, Sequences, FiniteSets, TLC

\* ------------------------------------------------------------------------
\* Bounds of the model
\* ------------------------------------------------------------------------
\* Largest number of properties in which a snapshot served to a stand-alone
\* adapter deviates from the base snapshot.
MaxChanged == 1
\* Largest number of requests (poll fetches and identity probes) in flight.
MaxInFlight == 2
\* Largest number of adapters that exist at a time.
MaxAdapters == 2

\* ------------------------------------------------------------------------
\* JavaScript values
\* ------------------------------------------------------------------------
Scalar(s) == [scalar |-> s]
List(xs) == [list |-> xs]
Obj(f) == [obj |-> f]
Undefined == [undefined |-> TRUE]
Null == [null |-> TRUE]

\* typeof v === 'object' && v !== null
IsObject(v) == "list" \in DOMAIN v \/ "obj" \in DOMAIN v

\* Object.keys of an array are its indices as strings.
IndexKey == <<"0", "1", "2", "3">>

\* The own enumerable properties of an object or array: key -> value.
Fields(v) ==
    IF "list" \in DOMAIN v
    THEN [k \in {IndexKey[i] : i \in 1..Len(v.list)} |->
             v.list[CHOOSE i \in 1..Len(v.list) : IndexKey[i] = k]]
    ELSE v.obj

\* obj1 === obj2.  Primitives compare by value.  Two objects compare by
\* reference; the values compared by the adapters always come from two
\* different response bodies, so they are never the same reference.
StrictEquals(obj1, obj2) ==
    IF IsObject(obj1) \/ IsObject(obj2) THEN FALSE ELSE obj1 = obj2

\* deepEqual without the recursion into objects: obj1 === obj2 only.
deepEqual_Shallow(obj1, obj2) == StrictEquals(obj1, obj2)

RECURSIVE deepEqual(_, _)
deepEqual(obj1, obj2) ==
    IF StrictEquals(obj1, obj2) THEN TRUE
    ELSE IF ~IsObject(obj1) \/ ~IsObject(obj2) THEN FALSE
    ELSE LET f1 == Fields(obj1)
             f2 == Fields(obj2)
         IN  IF Cardinality(DOMAIN f1) # Cardinality(DOMAIN f2) THEN FALSE
             ELSE \A key \in DOMAIN f1 :
                     key \in DOMAIN f2 /\ deepEqual(f1[key], f2[key])

\* obj[key] of a plain object: undefined for a missing key.
Get(obj, key) == IF key \in DOMAIN obj THEN obj[key] ELSE Undefined

\* findDifferences that looks at the keys of obj1 only.
findDifferences_Obj1Keys(obj1, obj2, excludedKeys) ==
    LET changed == {key \in DOMAIN obj1 :
                       key \notin excludedKeys
                       /\ ~deepEqual(Get(obj1, key), Get(obj2, key))}
    IN  [differences |-> [key \in changed |->
                             [obj1 |-> Get(obj1, key), obj2 |-> Get(obj2, key)]],
         size |-> Cardinality(changed)]

\* findDifferences(obj1, obj2, excludedKeys): the record of the keys of
\* either object that are not excluded and whose values are not deepEqual,
\* with both values, and their number.
findDifferences(obj1, obj2, excludedKeys) ==
    LET keys == DOMAIN obj1 \cup DOMAIN obj2
        changed == {key \in keys :
                       key \notin excludedKeys
                       /\ ~deepEqual(Get(obj1, key), Get(obj2, key))}
    IN  [differences |-> [key \in changed |->
                             [obj1 |-> Get(obj1, key), obj2 |-> Get(obj2, key)]],
         size |-> Cardinality(changed)]

\* hasAnyKey(obj, keys): some key of obj is in the set keys.  (Both
\* arguments are always defined where the adapters call it.)
hasAnyKey(obj, keys) == \E k \in DOMAIN obj : k \in keys

\* ------------------------------------------------------------------------
\* Shoot-mode tables (interfaces/IDeviceInfo.ts)
\* ------------------------------------------------------------------------
\* An object literal as the sequence of its <<key, value>> entries, in the
\* order Object.entries gives them.
Keys(entries) == {entries[i][1] : i \in 1..Len(entries)}

\* The object the entries make: key -> value; of two entries with one key
\* the later one counts.
ObjectOf(entries) ==
    [k \in Keys(entries) |->
        entries[CHOOSE i \in 1..Len(entries) :
                   /\ entries[i][1] = k
                   /\ \A j \in (i + 1)..Len(entries) : entries[j][1] # k][2]]

\* A forward table in which two entries have one flat mode string.
shootModeLookupEntries_Collision ==
    << <<"single", << <<"off", "single">>, <<"2s", "self2s">>,
                      <<"10s", "self10s">> >> >>,
       <<"continuous", << <<"off", "single">> >> >> >>

\* The entries of shootModeLookup.
shootModeLookupEntries ==
    << <<"single", << <<"off", "single">>, <<"2s", "self2s">>,
                      <<"10s", "self10s">> >> >>,
       <<"continuous", << <<"off", "continuous">> >> >>,
       <<"interval", << <<"off", "interval">>, <<"2s", "intervalSelf2s">>,
                        <<"10s", "intervalSelf10s">> >> >>,
       <<"intervalComp", << <<"off", "intervalComp">>,
                            <<"2s", "intervalCompSelf2s">>,
                            <<"10s", "intervalCompSelf10s">> >> >>,
       <<"multiExp", << <<"off", "multiExp">>, <<"2s", "multiExpSelf2s">>,
                        <<"10s", "multiExpSelf10s">> >> >>,
       <<"bracket", << <<"off", "bracket">>, <<"2s", "bracketSelf2s">>,
                       <<"10s", "bracketSelf10s">> >> >> >>

\* shootModeLookup: drive mode -> (self-timer option -> shoot mode).
shootModeLookup ==
    [d \in Keys(shootModeLookupEntries) |->
        ObjectOf(ObjectOf(shootModeLookupEntries)[d])]

\* The assignments of the loop that populates the reverse map, in order:
\* for each drive mode, for each self-timer option of it.
RECURSIVE Flatten(_)
Flatten(entries) ==
    IF entries = <<>> THEN <<>>
    ELSE LET driveMode == Head(entries)[1]
             selfTimerMap == Head(entries)[2]
         IN  [i \in 1..Len(selfTimerMap) |->
                 [shootMode |-> selfTimerMap[i][2],
                  driveMode |-> driveMode,
                  selfTimer |-> selfTimerMap[i][1]]]
             \o Flatten(Tail(entries))

\* shootModeReverseMap[shootMode] = { driveMode, selfTimer }, assigned in
\* that order to an object that is empty at first.
RECURSIVE Populate(_, _)
Populate(map, assignments) ==
    IF assignments = <<>> THEN map
    ELSE LET a == Head(assignments)
         IN  Populate([k \in DOMAIN map \cup {a.shootMode} |->
                          IF k = a.shootMode
                          THEN [driveMode |-> a.driveMode,
                                selfTimer |-> a.selfTimer]
                          ELSE map[k]],
                      Tail(assignments))

\* The reverse map once the module is loaded.
PopulatedReverseMap == Populate(<<>>, Flatten(shootModeLookupEntries))

\* ------------------------------------------------------------------------
\* Events
\* ------------------------------------------------------------------------
\* enum CameraEvents, in declaration order.
CameraEvents ==
    <<"connected", "disconnected", "settingsChanged", "captureSettingsChanged",
      "focusChanged", "orientationChanged", "storageChanged">>

\* EVENT_KEY_MAP
EVENT_KEY_MAP ==
    [FocusChanged |-> {"focused", "focusLocked", "focusMode", "AFMode",
                       "focusSetting"},
     OrientationChanged |-> {"cameraOrientation"},
     CaptureSettingsChanged |-> {"av", "tv", "sv", "xv", "flashxv", "shootMode",
                                 "WBMode", "exposureMode", "meteringMode",
                                 "effect", "stillSize", "movieSize", "focusMode",
                                 "AFMode", "focusSetting"},
     StorageChanged |-> {"storages"}]

\* An emitted event: its name and its argument list.
Event(name, args) == [name |-> name, args |-> args]

\* ------------------------------------------------------------------------
\* Snapshots served by the device (the inputs of the model)
\* ------------------------------------------------------------------------
\* The properties of a snapshot that vary in the model, besides "model".
VarKeys ==
    {"av", "focusSetting", "storages", "cameraOrientation", "datetime",
     "battery"}

Storage(remain) == Obj([name |-> Scalar("sd1"), remain |-> Scalar(remain)])

BaseValue(key) ==
    CASE key = "av" -> Scalar("2.8")
      [] key = "focusSetting" -> Scalar("auto")
      [] key = "storages" -> List(<<Storage("10")>>)
      [] key = "cameraOrientation" -> Scalar("0deg")
      [] key = "datetime" -> Scalar("12:00:00")
      [] key = "battery" -> Scalar("90")

AltValue(key) ==
    CASE key = "av" -> Scalar("4.0")
      [] key = "focusSetting" -> Scalar("mf")
      [] key = "storages" -> List(<<Storage("9")>>)
      [] key = "cameraOrientation" -> Scalar("90deg")
      [] key = "datetime" -> Scalar("12:00:02")
      [] key = "battery" -> Scalar("80")

\* The snapshot of a device of the given model whose properties in alt have
\* their alternative value.
Snapshot(model, alt) ==
    [key \in VarKeys \cup {"model"} |->
        IF key = "model" THEN Scalar(model)
        ELSE IF key \in alt THEN AltValue(key) ELSE BaseValue(key)]

\* The snapshots that deviate from the base snapshot in at most n properties.
SnapshotsUpTo(model, n) ==
    {Snapshot(model, alt) : alt \in {s \in SUBSET VarKeys : Cardinality(s) <= n}}

\* A response body without a model identity.
NoModelData == [errCode |-> Scalar("200")]

\* ------------------------------------------------------------------------
\* State
\* ------------------------------------------------------------------------
AdapterIds == 1..MaxAdapters
Branches == {"conn", "disc"}

VARIABLES
    adapter,           \* facade.adapter: an adapter id, 0 for null
    intervalId,        \* facade._intervalId: TRUE when the detection timer is armed
    adapterListeners,  \* facade.adapterListeners: sequence of [ad, event]
    ads,               \* the adapters that exist, by id
    polls,             \* poll fetches in flight: [ad, branch] -> number
    probes,            \* identity probes of the facade in flight
    last,              \* the step just taken (history)
    emitted,           \* events emitted by adapters in the step just taken
    femitted,          \* events emitted by the facade in the step just taken
    sent,              \* requests sent in the step just taken
    unhandled,         \* the step just taken ended in an unhandled rejection
    poller,            \* one Poller: intervalId, currentInterval, and the
                       \* interval timers armed in the runtime
    pcall,             \* the last call of a Poller method (history)
    elapsed,           \* time passed since that call
    fired,             \* the times, counted from that call, of the callback's
                       \* invocations since
    diff,              \* the last call of findDifferences: its arguments and
                       \* what it returned
    shootModeReverseMap, \* the module's reverse shoot-mode map
    calls,             \* settings writes of an adapter that await a response
    ret,               \* the last step of an adapter method: how it ended,
                       \* what it returned and the requests it sent (history)
    reachable          \* the device answers every request from now on

\* The variables of the Poller studied on its own.
pvars == <<poller, pcall, elapsed, fired>>

\* The variables of the adapters' methods studied on their own.
mvars == <<shootModeReverseMap, calls, ret>>

\* The variables of the parts studied on their own, which the adapters' and
\* the facade's steps leave alone.
uvars == <<pvars, diff, mvars, reachable>>

vars ==
    <<adapter, intervalId, adapterListeners, ads, polls, probes, last, emitted,
      femitted, sent, unhandled, poller, pcall, elapsed, fired, diff,
      shootModeReverseMap, calls, ret, reachable>>

\* An adapter that has not been constructed.
NoAdapter ==
    [gen |-> "none", isConnected |-> FALSE, info |-> Null, polling |-> FALSE,
     fwd |-> {}, once |-> FALSE, held |-> FALSE]

\* new GR2Adapter() / new GR3Adapter(): disconnected, empty cache, and the
\* constructor starts the poller.  fwd and once are the facade's listeners on
\* the adapter (the events with a forwarding handler, and the once-listener
\* for Disconnected); held tells that the caller of the constructor keeps the
\* reference (the facade keeps it in its adapter field instead).
NewAdapter(gen) ==
    [gen |-> gen, isConnected |-> FALSE, info |-> Null, polling |-> TRUE,
     fwd |-> {}, once |-> FALSE, held |-> FALSE]

\* The adapters' getters: isConnected, info and captureSettings (the last two
\* both return the cached device info).
isConnected(a) == ads[a].isConnected
info(a) == ads[a].info
captureSettings(a) == ads[a].info

InFlight ==
    LET pairs == AdapterIds \X Branches
        RECURSIVE Sum(_)
        Sum(S) == IF S = {} THEN 0
                  ELSE LET x == CHOOSE y \in S : TRUE
                       IN  polls[x] + Sum(S \ {x})
    IN  probes + Sum(pairs)

\* The adapters that can never run again: no reference to them is left (the
\* facade's adapter field holds another adapter or null, and no caller holds
\* them), their poller's timer is cleared and none of their requests is in
\* flight.
Garbage ==
    {a \in AdapterIds :
        /\ ads[a].gen # "none"
        /\ a # adapter
        /\ ~ads[a].held
        /\ ~ads[a].polling
        /\ polls[<<a, "conn">>] = 0
        /\ polls[<<a, "disc">>] = 0}

\* The record of the step just taken: the operation, the adapter it ran on,
\* the branch of fetchData that dispatched the request, the response body,
\* and the adapter's state when the step began.
Step(op, ad, branch, data) ==
    [op |-> op, ad |-> ad, branch |-> branch, data |-> data,
     wasConnected |-> IF ad = 0 THEN FALSE ELSE ads[ad].isConnected,
     prev |-> IF ad = 0 THEN Null ELSE ads[ad].info,
     wasPolling |-> IF ad = 0 THEN FALSE ELSE ads[ad].polling,
     hadAdapter |-> adapter, wasArmed |-> intervalId, arg |-> [none |-> TRUE],
     result |-> ""]

\* ------------------------------------------------------------------------
\* Protocol adapters: the poll-and-diff cycle
\* ------------------------------------------------------------------------
\* The keys fetchData excludes from the comparison.
ExcludedKeys(gen) ==
    IF gen = "GR2" THEN {"datetime", "storages"} ELSE {"datetime"}

When(cond, event) == IF cond THEN <<event>> ELSE <<>>

\* Variants of dispatchChangedEvents with a defect.  In the first the focus
\* check reads the capture-settings key set; the second emits an event for
\* every changed trigger key instead of one per category.
dispatchChangedEvents_WrongSet(gen, thisInfo, differences) ==
    When(hasAnyKey(differences, EVENT_KEY_MAP.CaptureSettingsChanged),
         Event("captureSettingsChanged", <<thisInfo, differences>>))
    \o When(hasAnyKey(differences, EVENT_KEY_MAP.CaptureSettingsChanged),
            Event("focusChanged", <<thisInfo, differences>>))
    \o When(gen # "GR2" /\ hasAnyKey(differences, EVENT_KEY_MAP.StorageChanged),
            Event("storageChanged", <<thisInfo, differences>>))
    \o When(gen # "GR2"
            /\ hasAnyKey(differences, EVENT_KEY_MAP.OrientationChanged),
            Event("orientationChanged", <<thisInfo, differences>>))

KeyOrder ==
    <<"av", "focusSetting", "storages", "cameraOrientation", "datetime",
      "battery", "model">>

dispatchChangedEvents_PerKey(gen, thisInfo, differences) ==
    LET changed == SelectSeq(KeyOrder, LAMBDA k : k \in DOMAIN differences)
        Each(name, keys) ==
            LET hit == SelectSeq(changed, LAMBDA k : k \in keys)
            IN  [i \in 1..Len(hit) |-> Event(name, <<thisInfo, differences>>)]
    IN  Each("captureSettingsChanged", EVENT_KEY_MAP.CaptureSettingsChanged)
        \o Each("focusChanged", EVENT_KEY_MAP.FocusChanged)
        \o (IF gen # "GR2"
            THEN Each("storageChanged", EVENT_KEY_MAP.StorageChanged)
                 \o Each("orientationChanged", EVENT_KEY_MAP.OrientationChanged)
            ELSE <<>>)

\* dispatchChangedEvents(differences): the events it emits, in order.  The
\* older generation has no storage and no orientation event.
dispatchChangedEvents(gen, thisInfo, differences) ==
    When(hasAnyKey(differences, EVENT_KEY_MAP.CaptureSettingsChanged),
         Event("captureSettingsChanged", <<thisInfo, differences>>))
    \o When(hasAnyKey(differences, EVENT_KEY_MAP.FocusChanged),
            Event("focusChanged", <<thisInfo, differences>>))
    \o When(gen # "GR2" /\ hasAnyKey(differences, EVENT_KEY_MAP.StorageChanged),
            Event("storageChanged", <<thisInfo, differences>>))
    \o When(gen # "GR2"
            /\ hasAnyKey(differences, EVENT_KEY_MAP.OrientationChanged),
            Event("orientationChanged", <<thisInfo, differences>>))

\* Variants of the connected branch's callback with a defect.  The first
\* compares the whole body with the cache and announces any change as a
\* capture-settings change (no exclusion); the second dispatches the events
\* without replacing the cache.
ThenConnected_NoExclusion(gen, cached, data) ==
    IF cached # data
    THEN [info |-> data,
          events |-> <<Event("captureSettingsChanged", <<data>>)>>]
    ELSE [info |-> cached, events |-> <<>>]

ThenConnected_KeepCache(gen, cached, data) ==
    LET result == findDifferences(IF cached = Null THEN <<>> ELSE cached, data,
                                  ExcludedKeys(gen))
    IN  IF result.size > 0
        THEN [info |-> cached,
              events |-> dispatchChangedEvents(gen, data, result.differences)]
        ELSE [info |-> cached, events |-> <<>>]

\* The .then callback of fetchData's connected branch: the new cache and the
\* events emitted.
ThenConnected(gen, cached, data) ==
    LET result == findDifferences(IF cached = Null THEN <<>> ELSE cached, data,
                                  ExcludedKeys(gen))
    IN  IF result.size > 0
        THEN [info |-> data,
              events |-> dispatchChangedEvents(gen, data, result.differences)]
        ELSE [info |-> cached, events |-> <<>>]

\* A variant that caches the body without marking the adapter connected.
ThenDisconnected_StaysDisconnected(ad, data) ==
    [ad EXCEPT !.info = data]

\* A variant that marks the adapter connected without caching the body.
ThenDisconnected_NoCache(ad, data) ==
    [ad EXCEPT !.isConnected = TRUE]

\* The .then callback of fetchData's disconnected branch.
ThenDisconnected(ad, data) ==
    [ad EXCEPT !.isConnected = TRUE, !.info = data]

\* A variant of disconnect() that leaves the poller running.
disconnect_KeepPolling(ad) ==
    [ad EXCEPT !.isConnected = FALSE, !.info = Null]

\* A variant of disconnect() that clears the cache and leaves the flag set.
disconnect_KeepFlag(ad) ==
    [ad EXCEPT !.info = Null, !.polling = FALSE]

\* A variant of disconnect() that leaves the cache in place.
disconnect_KeepCache(ad) ==
    [ad EXCEPT !.isConnected = FALSE, !.polling = FALSE]

\* disconnect(): the adapter's own state change; it then emits Disconnected.
disconnect(ad) ==
    [ad EXCEPT !.isConnected = FALSE, !.info = Null, !.polling = FALSE]

\* A variant in which both branches end in .catch(() => this.disconnect()).
HasCatch_Both(branch) == TRUE

\* TRUE when a rejected fetch of the given branch has a rejection handler.
\* The connected branch ends in .catch; the disconnected branch has only .then.
HasCatch(branch) == branch = "conn"

\* ------------------------------------------------------------------------
\* Controller facade: listeners on the adapters
\* ------------------------------------------------------------------------
SeqToSet(sq) == {sq[i] : i \in 1..Len(sq)}

\* A variant that forwards three events only.
ForwardedEvents_Three == <<"connected", "disconnected", "captureSettingsChanged">>

\* The events detectAndInitialize asks forwardAdapterEvents to forward:
\* Object.values(CameraEvents).
ForwardedEvents == CameraEvents

\* A variant of reset() that forgets cleanupListeners().
reset_NoCleanup(st) ==
    LET cur == st.adapter
    IN  IF cur = 0
        THEN [adapter |-> 0, adapterListeners |-> st.adapterListeners,
              ads |-> st.ads, threw |-> TRUE]
        ELSE [adapter |-> 0, adapterListeners |-> st.adapterListeners,
              ads |-> [st.ads EXCEPT ![cur].polling = FALSE], threw |-> FALSE]

\* reset(): cleanupListeners(), then stopListeningToEvents() through the
\* safeAdapter guard, then adapter = null.  st is [adapter, adapterListeners,
\* ads]; threw tells that the guard threw 'Camera not connected', in which
\* case the listener list is already emptied and the rest is skipped.
reset(st) ==
    LET cur == st.adapter
        mine == {h.event : h \in {x \in SeqToSet(st.adapterListeners) : x.ad = cur}}
    IN  IF cur = 0
        THEN [adapter |-> 0, adapterListeners |-> <<>>, ads |-> st.ads,
              threw |-> TRUE]
        ELSE [adapter |-> 0, adapterListeners |-> <<>>,
              ads |-> [st.ads EXCEPT ![cur].fwd = @ \ mine,
                                     ![cur].polling = FALSE],
              threw |-> FALSE]

\* The facade's share of adapter a emitting the events evs after its state
\* became newAd: every event with a forwarding handler on a is re-emitted by
\* the facade; a Disconnected event also fires the once-listener, which runs
\* reset().  Listeners run in registration order: the forwarding handler
\* first, then the once-listener.
Deliver(a, newAd, evs) ==
    LET fires == newAd.once /\ \E i \in 1..Len(evs) : evs[i].name = "disconnected"
        ads1 == [ads EXCEPT ![a] = [newAd EXCEPT !.once = @ /\ ~fires]]
        st == [adapter |-> adapter, adapterListeners |-> adapterListeners,
               ads |-> ads1]
        r == IF fires THEN reset(st) ELSE [st EXCEPT !.adapter = @] @@ [threw |-> FALSE]
    IN  /\ ads' = r.ads
        /\ adapter' = r.adapter
        /\ adapterListeners' = r.adapterListeners
        /\ emitted' = [i \in 1..Len(evs) |->
                          [ad |-> a, name |-> evs[i].name, args |-> evs[i].args,
                           active |-> adapter = a]]
        /\ femitted' = SelectSeq(evs, LAMBDA e : e.name \in newAd.fwd)
        /\ unhandled' = r.threw

\* ------------------------------------------------------------------------
\* Adapter actions
\* ------------------------------------------------------------------------
ModelOf(gen) == IF gen = "GR2" THEN "GR II" ELSE "GR III"

\* A tick of a timer that stopListeningToEvents() does not clear.
PollTick_WhenStopped(a) ==
    /\ Garbage = {}
    /\ UNCHANGED uvars
    /\ ads[a].gen # "none"
    /\ InFlight < MaxInFlight
    /\ LET branch == IF ads[a].isConnected THEN "conn" ELSE "disc"
       IN  /\ polls' = [polls EXCEPT ![<<a, branch>>] = @ + 1]
           /\ last' = Step("tick", a, branch, Null)
    /\ sent' = <<"GET /v1/props">>
    /\ emitted' = <<>>
    /\ femitted' = <<>>
    /\ unhandled' = FALSE
    /\ UNCHANGED <<adapter, intervalId, adapterListeners, ads, probes>>

\* A tick that is skipped while a fetch of the adapter is in flight.
PollTick_OneAtATime(a) ==
    /\ Garbage = {}
    /\ UNCHANGED uvars
    /\ ads[a].polling
    /\ InFlight < MaxInFlight
    /\ polls[<<a, "conn">>] + polls[<<a, "disc">>] = 0
    /\ LET branch == IF ads[a].isConnected THEN "conn" ELSE "disc"
       IN  /\ polls' = [polls EXCEPT ![<<a, branch>>] = @ + 1]
           /\ last' = Step("tick", a, branch, Null)
    /\ sent' = <<"GET /v1/props">>
    /\ emitted' = <<>>
    /\ femitted' = <<>>
    /\ unhandled' = FALSE
    /\ UNCHANGED <<adapter, intervalId, adapterListeners, ads, probes>>

\* The poller's timer fires: fetchData() reads the connected flag, chooses
\* its branch and sends GET /v1/props.  Nothing waits for an earlier fetch.
PollTick(a) ==
    /\ Garbage = {}
    /\ UNCHANGED uvars
    /\ ads[a].polling
    /\ InFlight < MaxInFlight
    /\ LET branch == IF ads[a].isConnected THEN "conn" ELSE "disc"
       IN  /\ polls' = [polls EXCEPT ![<<a, branch>>] = @ + 1]
           /\ last' = Step("tick", a, branch, Null)
    /\ sent' = <<"GET /v1/props">>
    /\ emitted' = <<>>
    /\ femitted' = <<>>
    /\ unhandled' = FALSE
    /\ UNCHANGED <<adapter, intervalId, adapterListeners, ads, probes>>

\* A poll fetch of adapter a resolves with the body data.
FetchResolved(a, branch, data) ==
    /\ Garbage = {}
    /\ UNCHANGED uvars
    /\ polls[<<a, branch>>] > 0
    /\ polls' = [polls EXCEPT ![<<a, branch>>] = @ - 1]
    /\ last' = Step("resolved", a, branch, data)
    /\ sent' = <<>>
    /\ IF branch = "conn"
       THEN LET r == ThenConnected(ads[a].gen, ads[a].info, data)
            IN  Deliver(a, [ads[a] EXCEPT !.info = r.info], r.events)
       ELSE Deliver(a, ThenDisconnected(ads[a], data),
                    <<Event("connected", <<data>>)>>)
    /\ UNCHANGED <<intervalId, probes>>

\* A poll fetch of adapter a fails (network error, timeout, error status).
FetchRejected(a, branch) ==
    /\ Garbage = {}
    /\ UNCHANGED uvars
    /\ polls[<<a, branch>>] > 0
    /\ polls' = [polls EXCEPT ![<<a, branch>>] = @ - 1]
    /\ last' = Step("rejected", a, branch, Null)
    /\ sent' = <<>>
    /\ IF HasCatch(branch)
       THEN Deliver(a, disconnect(ads[a]), <<Event("disconnected", <<>>)>>)
       ELSE /\ unhandled' = TRUE
            /\ emitted' = <<>>
            /\ femitted' = <<>>
            /\ UNCHANGED <<adapter, adapterListeners, ads>>
    /\ UNCHANGED <<intervalId, probes>>

\* A poll fetch of the connected branch resolves with the body data and a
\* listener of the k-th change event throws.  emit() runs the listeners
\* synchronously inside the .then callback, after the cache is replaced: the
\* exception rejects the promise that .then returns, the later events are
\* not dispatched, and the .catch of the branch calls disconnect().
FetchResolvedListenerThrows(a, data, k) ==
    /\ Garbage = {}
    /\ UNCHANGED uvars
    /\ polls[<<a, "conn">>] > 0
    /\ polls' = [polls EXCEPT ![<<a, "conn">>] = @ - 1]
    /\ last' = Step("listenerThrew", a, "conn", data)
    /\ sent' = <<>>
    /\ LET r == ThenConnected(ads[a].gen, ads[a].info, data)
       IN  /\ k \in 1..Len(r.events)
           /\ Deliver(a, disconnect([ads[a] EXCEPT !.info = r.info]),
                      SubSeq(r.events, 1, k) \o <<Event("disconnected", <<>>)>>)
    /\ UNCHANGED <<intervalId, probes>>

\* adapter.startListeningToEvents() / stopListeningToEvents() called on a
\* stand-alone adapter: Poller.start() / Poller.stop().
StartListening(a) ==
    /\ Garbage = {}
    /\ UNCHANGED uvars
    /\ ads[a].gen # "none"
    /\ ads' = [ads EXCEPT ![a].polling = TRUE]
    /\ last' = Step("startListeningToEvents", a, "", Null)
    /\ sent' = <<>>
    /\ emitted' = <<>>
    /\ femitted' = <<>>
    /\ unhandled' = FALSE
    /\ UNCHANGED <<adapter, intervalId, adapterListeners, polls, probes>>

StopListening(a) ==
    /\ Garbage = {}
    /\ UNCHANGED uvars
    /\ ads[a].gen # "none"
    /\ ads' = [ads EXCEPT ![a].polling = FALSE]
    /\ last' = Step("stopListeningToEvents", a, "", Null)
    /\ sent' = <<>>
    /\ emitted' = <<>>
    /\ femitted' = <<>>
    /\ unhandled' = FALSE
    /\ UNCHANGED <<adapter, intervalId, adapterListeners, polls, probes>>

\* ------------------------------------------------------------------------
\* Poller (shared/infrastructure/Poller.ts)
\* ------------------------------------------------------------------------
\* Time is counted in units of 1000 ms. The adapters construct their poller
\* with a default interval of 2000 ms.
defaultInterval == 2

\* The longest interval passed to a Poller method.
MaxInterval == 2

\* The largest valid number of cycles passed to setIntervalTemporarily.
MaxCycles == 2

\* The time after a call of a Poller method over which the poller is observed.
MaxElapsed == MaxCycles * MaxInterval + defaultInterval

Intervals == 1..MaxInterval

\* `cycles` is any number. Numbers that need not be integers are written in
\* halves: Num(1) is 1, and Num(1) + 1 is 1.5.
Num(n) == 2 * n

\* Number.isInteger, on a number written in halves.
IsInteger(h) == h % 2 = 0

\* The values of `cycles` passed to the model: -1, 0, 0.5, 1.5 and the
\* integers 1..MaxCycles.
CyclesArgs == {Num(-1), Num(0), Num(0) + 1, Num(1) + 1} \cup {Num(k) : k \in 1..MaxCycles}

\* new Poller(fn, defaultInterval): no timer, the current interval is the
\* default one.
NewPoller == [intervalId |-> 0, currentInterval |-> defaultInterval, timers |-> {}]

\* The identifier setInterval returns: one that no armed timer has.
FreshId(timers) ==
    CHOOSE n \in 1..(Cardinality(timers) + 1) :
        /\ \A t \in timers : t.id # n
        /\ \A m \in 1..(n - 1) : \E t \in timers : t.id = m

\* this.intervalId = setInterval(callback, ms): the timer first fires ms from
\* now. A temporary timer's callback counts its invocations up to `cycles`.
setInterval(p, ms, temporary, cycles) ==
    LET id == FreshId(p.timers)
    IN  [p EXCEPT !.intervalId = id,
                  !.timers = @ \cup {[id |-> id, period |-> ms, left |-> ms,
                                      temporary |-> temporary, count |-> 0,
                                      cycles |-> cycles]}]

\* clear(): clearInterval of the poller's timer, if it has one.
clear(p) ==
    IF p.intervalId # 0
    THEN [p EXCEPT !.timers = {t \in @ : t.id # p.intervalId}, !.intervalId = 0]
    ELSE p

\* start() that arms a timer without clearing the one the poller has.
start_NoClear(p) == setInterval(p, p.currentInterval, FALSE, 0)

\* start(): clear, then arm a timer at the current interval.
start(p) == setInterval(clear(p), p.currentInterval, FALSE, 0)

\* stop() that forgets the timer without clearing it.
stop_Forget(p) == [p EXCEPT !.intervalId = 0]

\* stop()
stop(p) == clear(p)

\* setIntervalMs(ms) that starts the poller whether it ran or not.
setIntervalMs_AlwaysStart(p, ms) == start([p EXCEPT !.currentInterval = ms])

\* setIntervalMs(ms) that leaves a running timer at its old interval.
setIntervalMs_Lazy(p, ms) == [p EXCEPT !.currentInterval = ms]

\* setIntervalMs(ms): the new current interval; a running poller is restarted.
setIntervalMs(p, ms) ==
    LET q == [p EXCEPT !.currentInterval = ms]
    IN  IF q.intervalId # 0 THEN start(q) ELSE q

\* A callback that, at `cycles`, restarts the poller at its current interval
\* instead of the default one.
Callback_RestoreCurrent(p, t) ==
    LET t1 == [t EXCEPT !.left = t.period,
                        !.count = IF t.temporary THEN @ + 1 ELSE @]
        p1 == [p EXCEPT !.timers = (@ \ {t}) \cup {t1}]
    IN  IF t.temporary /\ Num(t1.count) >= t.cycles
        THEN start(p1)
        ELSE p1

\* A callback that never sets the interval back.
Callback_KeepTemporary(p, t) ==
    LET t1 == [t EXCEPT !.left = t.period,
                        !.count = IF t.temporary THEN @ + 1 ELSE @]
    IN  [p EXCEPT !.timers = (@ \ {t}) \cup {t1}]

\* The callback of a timer t that fires: the poller's fn; a temporary timer
\* counts the invocation and, at `cycles`, sets the interval back to the
\* default one.
Callback(p, t) ==
    LET t1 == [t EXCEPT !.left = t.period,
                        !.count = IF t.temporary THEN @ + 1 ELSE @]
        p1 == [p EXCEPT !.timers = (@ \ {t}) \cup {t1}]
    IN  IF t.temporary /\ Num(t1.count) >= t.cycles
        THEN setIntervalMs(p1, defaultInterval)
        ELSE p1

\* setIntervalTemporarily that clears the timer before it validates `cycles`.
setIntervalTemporarily_ClearFirst(p, ms, cycles) ==
    IF ~IsInteger(cycles) \/ cycles < Num(1)
    THEN [p |-> clear(p), result |-> "InvalidArgument"]
    ELSE [p |-> setInterval(clear(p), ms, TRUE, cycles), result |-> "void"]

\* setIntervalTemporarily(ms, cycles): throws unless `cycles` is an integer
\* >= 1; clears, then arms a temporary timer at ms.
setIntervalTemporarily(p, ms, cycles) ==
    IF ~IsInteger(cycles) \/ cycles < Num(1)
    THEN [p |-> p, result |-> "InvalidArgument"]
    ELSE [p |-> setInterval(clear(p), ms, TRUE, cycles), result |-> "void"]

\* The controller's variables, which the Poller on its own leaves alone.
fvars ==
    <<adapter, intervalId, adapterListeners, ads, polls, probes, last, emitted,
      femitted, sent, unhandled>>

\* A call of a Poller method, directly (via = "poller") or through the
\* adapter method that delegates to it (via = "adapter"): r is its outcome.
\* The history keeps the poller before the call, and which call this one
\* comes after, whether less than the current interval after it, and whether
\* the callback ran in between.
Called(via, op, ms, cycles, r) ==
    /\ poller' = r.p
    /\ pcall' = [op |-> op, via |-> via, ms |-> ms, cycles |-> cycles,
                 before |-> poller, result |-> r.result,
                 after |-> [op |-> pcall.op,
                            early |-> elapsed < poller.currentInterval,
                            ran |-> fired # <<>>]]
    /\ elapsed' = 0
    /\ fired' = <<>>
    /\ UNCHANGED <<fvars, diff, mvars, reachable>>

Vias == {"poller", "adapter"}

\* poller.start(); adapter.startListeningToEvents()
PollerStart(via) ==
    Called(via, "start", 0, 0, [p |-> start(poller), result |-> "void"])

\* poller.stop(); adapter.stopListeningToEvents()
PollerStop(via) ==
    Called(via, "stop", 0, 0, [p |-> stop(poller), result |-> "void"])

\* poller.setIntervalMs(ms); adapter.setPollInterval(ms)
PollerSetIntervalMs(via, ms) ==
    Called(via, "setIntervalMs", ms, 0,
           [p |-> setIntervalMs(poller, ms), result |-> "void"])

\* poller.setIntervalTemporarily(ms, cycles);
\* adapter.setPollIntervalTemporarily(ms, cycles)
PollerSetIntervalTemporarily(via, ms, cycles) ==
    Called(via, "setIntervalTemporarily", ms, cycles,
           setIntervalTemporarily(poller, ms, cycles))

\* A timer that is due fires: its callback runs.
TimerFires ==
    \E t \in poller.timers :
       /\ t.left = 0
       /\ poller' = Callback(poller, t)
       /\ fired' = Append(fired, elapsed)
       /\ UNCHANGED <<pcall, elapsed>>
       /\ UNCHANGED <<fvars, diff, mvars, reachable>>

\* One unit of time passes; it does not pass while a timer is due.
TimePasses ==
    /\ elapsed < MaxElapsed
    /\ \A t \in poller.timers : t.left > 0
    /\ poller' = [poller EXCEPT
                    !.timers = {[t EXCEPT !.left = @ - 1] : t \in @}]
    /\ elapsed' = elapsed + 1
    /\ UNCHANGED <<pcall, fired>>
    /\ UNCHANGED <<fvars, diff, mvars, reachable>>

\* findDifferences is not called.
NoDiff == [obj1 |-> <<>>, obj2 |-> <<>>, excludedKeys |-> {}, result |-> Null]

\* No adapter method has been called.
NoReturn == [op |-> "none", arg |-> <<>>, result |-> "", value |-> Null,
             sent |-> <<>>]

InitPollerVars ==
    /\ poller = NewPoller
    /\ pcall = [op |-> "new", via |-> "poller", ms |-> 0, cycles |-> 0,
                before |-> NewPoller, result |-> "void",
                after |-> [op |-> "new", early |-> TRUE, ran |-> FALSE]]
    /\ elapsed = 0
    /\ fired = <<>>

\* ------------------------------------------------------------------------
\* Specification of one stand-alone adapter
\* ------------------------------------------------------------------------
InitCommon ==
    /\ adapter = 0
    /\ intervalId = FALSE
    /\ adapterListeners = <<>>
    /\ polls = [x \in AdapterIds \X Branches |-> 0]
    /\ probes = 0
    /\ last = [op |-> "init", ad |-> 0, branch |-> "", data |-> Null,
               wasConnected |-> FALSE, prev |-> Null, wasPolling |-> FALSE,
               hadAdapter |-> 0, wasArmed |-> FALSE, arg |-> [none |-> TRUE],
               result |-> ""]
    /\ emitted = <<>>
    /\ femitted = <<>>
    /\ sent = <<>>
    /\ unhandled = FALSE
    /\ InitPollerVars
    /\ shootModeReverseMap = PopulatedReverseMap
    /\ calls = <<>>
    /\ ret = NoReturn
    /\ reachable = FALSE

\* new GR2Adapter() or new GR3Adapter(), used without a facade.
InitAdapter ==
    /\ InitCommon
    /\ diff = NoDiff
    /\ \E gen \in {"GR2", "GR3"} :
          ads = [a \in AdapterIds |->
                    IF a = 1 THEN [NewAdapter(gen) EXCEPT !.held = TRUE]
                    ELSE NoAdapter]

NextAdapter ==
    \/ PollTick(1)
    \/ \E branch \in Branches :
          \E data \in SnapshotsUpTo(ModelOf(ads[1].gen), MaxChanged) :
             FetchResolved(1, branch, data)
    \/ \E branch \in Branches : FetchRejected(1, branch)
    \/ StartListening(1)
    \/ StopListening(1)

SpecAdapter == InitAdapter /\ [][NextAdapter]_vars

\* The stand-alone adapter with external listeners that may throw.
NextListeners ==
    \/ NextAdapter
    \/ \E data \in SnapshotsUpTo(ModelOf(ads[1].gen), MaxChanged) :
          \E k \in 1..Len(CameraEvents) :
             FetchResolvedListenerThrows(1, data, k)

SpecListeners == InitAdapter /\ [][NextListeners]_vars

\* ------------------------------------------------------------------------
\* Specification of one Poller, called at any time
\* ------------------------------------------------------------------------
InitPoller ==
    /\ InitCommon
    /\ diff = NoDiff
    /\ ads = [a \in AdapterIds |-> NoAdapter]

NextPoller ==
    \/ \E via \in Vias : PollerStart(via)
    \/ \E via \in Vias : PollerStop(via)
    \/ \E via \in Vias, ms \in Intervals : PollerSetIntervalMs(via, ms)
    \/ \E via \in Vias, ms \in Intervals, cycles \in CyclesArgs :
          PollerSetIntervalTemporarily(via, ms, cycles)
    \/ TimerFires
    \/ TimePasses

SpecPoller == InitPoller /\ [][NextPoller]_vars

\* ------------------------------------------------------------------------
\* Specification of findDifferences, called on any two snapshots
\* ------------------------------------------------------------------------
\* The property names of the snapshots compared, and the names that can be
\* excluded (one of them is in no snapshot).
DiffKeys == {"av", "storages"}
ExcludableKeys == DiffKeys \cup {"datetime"}

\* A mapping nested in a mapping.
Nested(leaf) == Obj([inner |-> Obj([leaf |-> Scalar(leaf)])])

\* The values of a property: strings (one of them empty, so false-y), null,
\* string lists that differ in order and in length, lists of objects, and
\* nested mappings.
DiffValues ==
    {Scalar("2.8"), Scalar(""), Null,
     List(<<Scalar("a"), Scalar("b")>>), List(<<Scalar("b"), Scalar("a")>>),
     List(<<Scalar("a")>>), List(<<Storage("1")>>), List(<<Storage("2")>>),
     Nested("1"), Nested("2")}

\* The snapshots: every mapping from some of the names to values. The one
\* without names is the empty mapping.
FlatSnapshots ==
    UNION {[ks -> DiffValues] : ks \in SUBSET DiffKeys}

\* A call findDifferences(obj1, obj2, excludedKeys) that has not returned.
DiffCall(obj1, obj2, excludedKeys) ==
    [obj1 |-> obj1, obj2 |-> obj2, excludedKeys |-> excludedKeys,
     result |-> Null]

\* findDifferences returns.
FindDifferences ==
    /\ diff.result = Null
    /\ diff' = [diff EXCEPT
                  !.result = findDifferences(diff.obj1, diff.obj2,
                                             diff.excludedKeys)]
    /\ UNCHANGED <<fvars, pvars, mvars, reachable>>

InitDiff ==
    /\ InitCommon
    /\ ads = [a \in AdapterIds |-> NoAdapter]
    /\ \E obj1 \in FlatSnapshots, obj2 \in FlatSnapshots :
          \E excludedKeys \in SUBSET ExcludableKeys :
             diff = DiffCall(obj1, obj2, excludedKeys)

NextDiff == FindDifferences

SpecDiff == InitDiff /\ [][NextDiff]_vars

\* ------------------------------------------------------------------------
\* Controller facade: operations
\* ------------------------------------------------------------------------
\* The facade's methods that take part in the model.
FacadeOps ==
    {"getLiveViewURL", "getStatus", "lockFocus", "capturePhoto",
     "getCaptureSettings", "setCaptureSettings", "getDialModeList",
     "setDialMode", "getDriveModeList", "getDriveMode",
     "getSelfTimerOptionList", "getSelfTimerOption", "setShootMode",
     "getFocusModeList", "setFocusMode", "getFocusSetting", "getAllProperties",
     "sendCommand", "refreshDisplay", "getMediaList", "getResizedPhotoURL",
     "getOriginalMediaURL", "startListeningToEvents", "stopListeningToEvents",
     "setPollInterval", "setPollIntervalTemporarily"}

\* A variant in which sendCommand and refreshDisplay, like getAllProperties,
\* post through the facade's own HTTP client instead of the guarded adapter.
GuardedOps_OwnClient ==
    FacadeOps \ {"getAllProperties", "sendCommand", "refreshDisplay"}

\* The facade methods that reach the adapter through the safeAdapter guard:
\* all but getAllProperties, which uses the facade's own HTTP client.
GuardedOps == FacadeOps \ {"getAllProperties"}

\* The request of a method that uses the facade's own client:
\* getAllProperties() gets /v1/props.
DirectRequest(op) == "GET /v1/props"

\* The arguments the model passes to a method.
Args(op) ==
    CASE op = "lockFocus" ->
            {[x |-> x, y |-> y] : x \in {-1, 50, 101}, y \in {-1, 50, 101}}
      [] op = "setFocusMode" -> {[mode |-> m] : m \in {"MF", "bogus"}}
      [] op = "setPollIntervalTemporarily" ->
            {[cycles |-> c] : c \in {Num(0), Num(1), Num(1) + 1, Num(2)}}
      [] OTHER -> {[none |-> TRUE]}

Outcome(result, requests, polling) ==
    [result |-> result, sent |-> requests, polling |-> polling]

FOCUS_MODE_TO_COMMAND_MAP_Keys ==
    {"multiauto", "spot", "pinpoint", "tracking", "snap", "MF", "inf"}

\* A method of adapter ad called with arg, up to its first request: how the
\* call ends before any response (a failure condition, a local value, or a
\* request sent), the requests sent, and whether the poller's timer is armed
\* afterwards.
AdapterCall(ad, op, arg) ==
    LET gr2 == ad.gen = "GR2"
        cache == IF ad.info = Null THEN <<>> ELSE ad.info
        Request(r) == Outcome("request", <<r>>, ad.polling)
        Value == Outcome("value", <<>>, ad.polling)
        Fail(e) == Outcome(e, <<>>, ad.polling)
    IN  CASE op = "getLiveViewURL" -> Value
          [] op = "getStatus" -> Request("GET /v1/ping")
          [] op = "lockFocus" ->
                IF arg.x < 0 \/ arg.x > 100 \/ arg.y < 0 \/ arg.y > 100
                THEN Fail("InvalidArgument")
                ELSE Request(IF gr2 THEN "POST /v1/lens/focus/lock"
                             ELSE "POST /v1/lens/focus")
          [] op = "capturePhoto" -> Request("POST /v1/camera/shoot")
          [] op = "getCaptureSettings" ->
                Request(IF gr2 THEN "GET /v1/params" ELSE "GET /v1/props")
          [] op = "setCaptureSettings" -> Request("PUT /v1/params/camera")
          [] op = "getDialModeList" -> Value
          [] op = "setDialMode" -> Request("POST /_gr")
          [] op = "getDriveModeList" -> Value
          [] op \in {"getDriveMode", "getSelfTimerOption",
                     "getSelfTimerOptionList"} ->
                IF gr2 THEN Fail("NotSupported")
                ELSE IF Get(cache, "shootMode") = Undefined THEN Fail("NotFound")
                ELSE IF Get(cache, "shootMode").scalar
                            \notin DOMAIN shootModeReverseMap
                THEN Fail("TypeError")
                ELSE Value
          [] op = "setShootMode" ->
                IF gr2 THEN Fail("NotSupported")
                ELSE Request("PUT /v1/params/camera")
          [] op = "getFocusModeList" -> Value
          [] op = "setFocusMode" ->
                IF ~gr2 THEN Fail("NotSupported")
                ELSE IF arg.mode \in FOCUS_MODE_TO_COMMAND_MAP_Keys
                THEN Request("POST /_gr")
                ELSE Fail("InvalidArgument")
          [] op = "getFocusSetting" ->
                IF Get(cache, IF gr2 THEN "AFMode" ELSE "focusSetting") = Undefined
                THEN Fail("NotFound") ELSE Value
          [] op = "sendCommand" -> Request("POST /_gr")
          [] op = "refreshDisplay" ->
                IF gr2 THEN Request("POST /_gr") ELSE Fail("NotSupported")
          [] op = "getMediaList" ->
                IF gr2 THEN Fail("NotSupported") ELSE Request("GET /v1/photos")
          [] op \in {"getResizedPhotoURL", "getOriginalMediaURL"} ->
                IF gr2 THEN Fail("NotSupported") ELSE Value
          [] op = "startListeningToEvents" -> Outcome("void", <<>>, TRUE)
          [] op = "stopListeningToEvents" -> Outcome("void", <<>>, FALSE)
          [] op = "setPollInterval" -> Outcome("void", <<>>, ad.polling)
          [] op = "setPollIntervalTemporarily" ->
                IF setIntervalTemporarily(NewPoller, 1, arg.cycles).result # "void"
                THEN Fail("InvalidArgument")
                ELSE Outcome("void", <<>>, TRUE)

\* The results with which a method fails.
Failures ==
    {"NotConnected", "InvalidArgument", "NotSupported", "NotFound", "TypeError"}

\* A variant in which lockFocus calls the adapter without returning its
\* promise.
Delegate_LockFocusDropped(op, arg) ==
    [method |-> op, arg |-> arg, returned |-> op # "lockFocus"]

\* The delegation of a guarded facade method: return
\* this.safeAdapter.<method>(<the caller's arguments>).
Delegate(op, arg) == [method |-> op, arg |-> arg, returned |-> TRUE]

\* A facade method is called.  A guarded method fails with 'Camera not
\* connected' when there is no adapter and delegates otherwise; the others
\* use the facade's own client.  A delegate that does not return the
\* adapter's promise yields undefined, and the adapter's failure is then a
\* rejection nobody handles.
FacadeCall(op, arg) ==
    /\ Garbage = {}
    /\ UNCHANGED uvars
    /\ IF op \in GuardedOps
       THEN IF adapter = 0
            THEN /\ last' = [Step(op, adapter, "", Null) EXCEPT
                               !.result = "NotConnected", !.arg = arg]
                 /\ sent' = <<>>
                 /\ ads' = ads
                 /\ unhandled' = FALSE
            ELSE LET d == Delegate(op, arg)
                     r == AdapterCall(ads[adapter], d.method, d.arg)
                 IN  /\ last' = [Step(op, adapter, "", Null) EXCEPT
                                   !.result = IF d.returned THEN r.result
                                              ELSE "undefined",
                                   !.arg = arg]
                     /\ sent' = r.sent
                     /\ ads' = [ads EXCEPT ![adapter].polling = r.polling]
                     /\ unhandled' = (~d.returned /\ r.result \in Failures)
       ELSE /\ last' = [Step(op, adapter, "", Null) EXCEPT
                          !.result = "request", !.arg = arg]
            /\ sent' = <<DirectRequest(op)>>
            /\ ads' = ads
            /\ unhandled' = FALSE
    /\ emitted' = <<>>
    /\ femitted' = <<>>
    /\ UNCHANGED <<adapter, intervalId, adapterListeners, polls, probes>>

\* startCameraDetectionAndPairing(): arms the detection timer unless armed.
StartCameraDetectionAndPairing ==
    /\ Garbage = {}
    /\ UNCHANGED uvars
    /\ intervalId' = TRUE
    /\ last' = Step("startCameraDetectionAndPairing", 0, "", Null)
    /\ sent' = <<>> /\ emitted' = <<>> /\ femitted' = <<>> /\ unhandled' = FALSE
    /\ UNCHANGED <<adapter, adapterListeners, ads, polls, probes>>

\* stopCameraDetectionAndPairing(): clears the detection timer.
StopCameraDetectionAndPairing ==
    /\ Garbage = {}
    /\ UNCHANGED uvars
    /\ intervalId' = FALSE
    /\ last' = Step("stopCameraDetectionAndPairing", 0, "", Null)
    /\ sent' = <<>> /\ emitted' = <<>> /\ femitted' = <<>> /\ unhandled' = FALSE
    /\ UNCHANGED <<adapter, adapterListeners, ads, polls, probes>>

\* A variant of detectAndInitialize() without the adapter == null test.
DetectionTick_AlwaysProbes ==
    /\ Garbage = {}
    /\ UNCHANGED uvars
    /\ intervalId
    /\ InFlight < MaxInFlight
    /\ probes' = probes + 1 /\ sent' = <<"GET /v1/props">>
    /\ last' = Step("detect", 0, "", Null)
    /\ emitted' = <<>> /\ femitted' = <<>> /\ unhandled' = FALSE
    /\ UNCHANGED <<adapter, intervalId, adapterListeners, ads, polls>>

\* The detection timer fires: detectAndInitialize() probes GET /v1/props when
\* the facade holds no adapter.
DetectionTick ==
    /\ Garbage = {}
    /\ UNCHANGED uvars
    /\ intervalId
    /\ InFlight < MaxInFlight
    /\ IF adapter = 0
       THEN probes' = probes + 1 /\ sent' = <<"GET /v1/props">>
       ELSE probes' = probes /\ sent' = <<>>
    /\ last' = Step("detect", 0, "", Null)
    /\ emitted' = <<>> /\ femitted' = <<>> /\ unhandled' = FALSE
    /\ UNCHANGED <<adapter, intervalId, adapterListeners, ads, polls>>

\* The number of adapters that exist.
Constructed == Cardinality({a \in AdapterIds : ads[a].gen # "none"})

\* The identifiers not in use.
FreeIds == {a \in AdapterIds : ads[a].gen = "none"}

\* forwardAdapterEvents(events): one handler per event, attached to the
\* facade's adapter and appended to the listener list.
Handlers(a, events) == [i \in 1..Len(events) |-> [ad |-> a, event |-> events[i]]]

\* An identity probe resolves.  With a model in the body the detection timer
\* is stopped and a new adapter is constructed (the older generation's for
\* 'GR II', the newer generation's otherwise), wired to the facade and started.
ProbeResolved(data) ==
    /\ Garbage = {}
    /\ UNCHANGED uvars
    /\ probes > 0
    /\ probes' = probes - 1
    /\ IF "model" \in DOMAIN data
       THEN LET n == CHOOSE a \in FreeIds : \A b \in FreeIds : a <= b
                gen == IF data["model"] = Scalar("GR II") THEN "GR2" ELSE "GR3"
            IN  /\ FreeIds # {}
                /\ last' = Step("probeResolved", n, "", data)
                /\ intervalId' = FALSE
                /\ adapter' = n
                /\ adapterListeners' = adapterListeners \o Handlers(n, ForwardedEvents)
                /\ ads' = [ads EXCEPT ![n] =
                             [NewAdapter(gen) EXCEPT !.fwd = SeqToSet(ForwardedEvents),
                                                     !.once = TRUE,
                                                     !.polling = TRUE]]
       ELSE /\ last' = Step("probeResolved", 0, "", data)
            /\ UNCHANGED <<intervalId, adapter, adapterListeners, ads>>
    /\ sent' = <<>> /\ emitted' = <<>> /\ femitted' = <<>> /\ unhandled' = FALSE
    /\ UNCHANGED polls

\* An identity probe fails with a transport error, which the .catch of
\* detectAndInitialize swallows.
ProbeRejected ==
    /\ Garbage = {}
    /\ UNCHANGED uvars
    /\ probes > 0
    /\ probes' = probes - 1
    /\ last' = Step("probeRejected", 0, "", Null)
    /\ sent' = <<>> /\ emitted' = <<>> /\ femitted' = <<>> /\ unhandled' = FALSE
    /\ UNCHANGED <<adapter, intervalId, adapterListeners, ads, polls>>

\* The facade's getters isConnected and info.
FacadeIsConnected == adapter # 0 /\ ads[adapter].isConnected
FacadeInfo == IF adapter = 0 THEN Null ELSE ads[adapter].info

\* facade.disconnect(): when connected, reset() and emit Disconnected.
FacadeDisconnect ==
    /\ Garbage = {}
    /\ UNCHANGED uvars
    /\ last' = Step("disconnect", adapter, "", Null)
    /\ IF adapter # 0 /\ ads[adapter].isConnected
       THEN LET r == reset([adapter |-> adapter,
                            adapterListeners |-> adapterListeners, ads |-> ads])
            IN  /\ adapter' = r.adapter
                /\ adapterListeners' = r.adapterListeners
                /\ ads' = r.ads
                /\ femitted' = <<Event("disconnected", <<>>)>>
       ELSE /\ femitted' = <<>>
            /\ UNCHANGED <<adapter, adapterListeners, ads>>
    /\ sent' = <<>> /\ emitted' = <<>> /\ unhandled' = FALSE
    /\ UNCHANGED <<intervalId, polls, probes>>

\* The runtime reclaims the unreachable adapters; their identifiers are free
\* again.  Every other action waits for it (their guard Garbage = {}), so
\* that an adapter exists in the model only as long as it can act.  The
\* handlers the facade still lists for a reclaimed adapter are attached to
\* nothing; they leave the list with it.
CollectGarbage ==
    /\ Garbage # {}
    /\ UNCHANGED uvars
    /\ ads' = [a \in AdapterIds |-> IF a \in Garbage THEN NoAdapter ELSE ads[a]]
    /\ adapterListeners' = SelectSeq(adapterListeners, LAMBDA h : h.ad \notin Garbage)
    /\ last' = [last EXCEPT !.op = "collected"]
    /\ UNCHANGED <<adapter, intervalId, polls, probes, emitted, femitted, sent,
                   unhandled>>

\* ------------------------------------------------------------------------
\* Specification of the facade with the adapters it constructs
\* ------------------------------------------------------------------------
\* The properties that vary in the bodies served to the facade's adapters.
FacadeVarKeys == {"focusSetting", "storages", "cameraOrientation"}

\* The bodies served to the facade's adapters: the base snapshot and the one
\* in which all of these properties have changed.
PollBodies(gen) ==
    {Snapshot(ModelOf(gen), {}), Snapshot(ModelOf(gen), FacadeVarKeys)}

ProbeBodies ==
    {Snapshot("GR II", {}), Snapshot("GR III", {}), Snapshot("GR IV", {}),
     NoModelData}

InitFacade ==
    /\ InitCommon
    /\ diff = NoDiff
    /\ ads = [a \in AdapterIds |-> NoAdapter]

NextFacade ==
    \/ CollectGarbage
    \/ StartCameraDetectionAndPairing
    \/ StopCameraDetectionAndPairing
    \/ DetectionTick
    \/ \E data \in ProbeBodies : ProbeResolved(data)
    \/ ProbeRejected
    \/ \E a \in AdapterIds : PollTick(a)
    \/ \E a \in AdapterIds, branch \in Branches :
          \E data \in PollBodies(ads[a].gen) : FetchResolved(a, branch, data)
    \/ \E a \in AdapterIds, branch \in Branches : FetchRejected(a, branch)
    \/ FacadeDisconnect

SpecFacade == InitFacade /\ [][NextFacade]_vars

\* ------------------------------------------------------------------------
\* Specification of the facade with a device that, from some point on, stays
\* reachable, under fair scheduling of timers and responses
\* ------------------------------------------------------------------------
\* From now on the device answers every request with a snapshot that has a
\* model identity.
DeviceStaysReachable ==
    /\ ~reachable
    /\ reachable' = TRUE
    /\ UNCHANGED <<fvars, pvars, diff, mvars>>

\* The bodies of an identity probe that have a model identity.
ModelBodies == {data \in ProbeBodies : "model" \in DOMAIN data}

\* The device answers a fetch of adapter a that one of its ticks sent.
Response(a, branch) ==
    \E data \in PollBodies(ads[a].gen) : FetchResolved(a, branch, data)

\* The caller starts the detection loop and leaves the facade alone; requests
\* fail, or are answered without a model identity, only as long as the
\* device is not yet reachable for good.
NextLive ==
    \/ CollectGarbage
    \/ StartCameraDetectionAndPairing
    \/ DetectionTick
    \/ \E data \in ModelBodies : ProbeResolved(data)
    \/ ~reachable /\ ProbeResolved(NoModelData)
    \/ ~reachable /\ ProbeRejected
    \/ \E a \in AdapterIds : PollTick(a)
    \/ \E a \in AdapterIds, branch \in Branches : Response(a, branch)
    \/ \E a \in AdapterIds, branch \in Branches :
          ~reachable /\ FetchRejected(a, branch)
    \/ DeviceStaysReachable

\* A fetch of adapter a is in flight and can be answered: the guard of
\* FetchResolved, which is what ENABLED <<Response(a, branch)>>_vars means.
ResponsePending(a, branch) == Garbage = {} /\ polls[<<a, branch>>] > 0

\* Every request is answered in the end (the HTTP client's timeout bounds
\* the wait): weak fairness of Response(a, branch), with its ENABLED written
\* as ResponsePending.
FairResponse(a, branch) ==
    \/ []<>(~ResponsePending(a, branch))
    \/ []<><<Response(a, branch)>>_vars

\* Timers that are armed keep firing (setInterval), whatever is in flight,
\* and every request is answered in the end.
FairLive ==
    /\ WF_vars(CollectGarbage)
    /\ SF_vars(DetectionTick)
    /\ WF_vars(\E data \in ModelBodies : ProbeResolved(data))
    /\ \A a \in AdapterIds : SF_vars(PollTick(a))
    /\ \A a \in AdapterIds, branch \in Branches : FairResponse(a, branch)

SpecLive == InitFacade /\ [][NextLive]_vars /\ FairLive

\* ------------------------------------------------------------------------
\* Specification of the facade's methods, called in every state of a facade
\* that pairs with one camera
\* ------------------------------------------------------------------------
NextCalls ==
    \/ CollectGarbage
    \/ StartCameraDetectionAndPairing
    \/ StopCameraDetectionAndPairing
    \/ DetectionTick
    \/ \E data \in ProbeBodies : Constructed = 0 /\ ProbeResolved(data)
    \/ ProbeRejected
    \/ PollTick(1)
    \/ \E branch \in Branches :
          \E data \in PollBodies(ads[1].gen) : FetchResolved(1, branch, data)
    \/ \E branch \in Branches : FetchRejected(1, branch)
    \/ \E op \in FacadeOps : \E arg \in Args(op) : FacadeCall(op, arg)
    \/ FacadeDisconnect

SpecCalls == InitFacade /\ [][NextCalls]_vars

\* ------------------------------------------------------------------------
\* The adapters' methods, with their arguments, requests and return values
\* ------------------------------------------------------------------------
\* Coordinates are numbers; they are written in tenths, so that 506 is 50.6.
Tenths(n) == 10 * n

\* Math.round(x): the integer nearest to x, a half rounding up.
MathRound(x) == (x + 5) \div 10

\* `${a}<sep>${b}<sep>...` of a sequence of strings.
RECURSIVE Join(_, _)
Join(strings, sep) ==
    IF strings = <<>> THEN ""
    ELSE IF Len(strings) = 1 THEN strings[1]
    ELSE strings[1] \o sep \o Join(Tail(strings), sep)

\* A request of the adapter's client.
Req(method, path, body) == [method |-> method, path |-> path, body |-> body]

\* How a method ends before any response: with a value it returns (a
\* JavaScript value), with a failure it throws or rejects with, or with the
\* requests it has sent.
Returns(value) == [result |-> "value", value |-> value, sent |-> <<>>]
Throws(e) == [result |-> e, value |-> Undefined, sent |-> <<>>]
Sends(request) == [result |-> "request", value |-> Undefined, sent |-> <<request>>]

\* this._cachedDeviceInfo?.<key>
Cached(ad, key) == IF ad.info = Null THEN Undefined ELSE Get(ad.info, key)

\* lockFocus that sends the coordinates as they are given, unrounded, in
\* tenths.
lockFocus_Unrounded(ad, x, y) ==
    IF x < Tenths(0) \/ x > Tenths(100) \/ y < Tenths(0) \/ y > Tenths(100)
    THEN Throws("InvalidArgument")
    ELSE Sends(Req("POST",
                   IF ad.gen = "GR2" THEN "/v1/lens/focus/lock"
                   ELSE "/v1/lens/focus",
                   "pos=" \o ToString(x) \o "," \o ToString(y)))

\* lockFocus(x, y)
lockFocus(ad, x, y) ==
    IF x < Tenths(0) \/ x > Tenths(100) \/ y < Tenths(0) \/ y > Tenths(100)
    THEN Throws("InvalidArgument")
    ELSE Sends(Req("POST",
                   IF ad.gen = "GR2" THEN "/v1/lens/focus/lock"
                   ELSE "/v1/lens/focus",
                   "pos=" \o ToString(MathRound(x)) \o ","
                          \o ToString(MathRound(y))))

\* getDriveModeList(): a fixed list on the older generation, the keys of
\* shootModeLookup on the newer one.
getDriveModeList(ad) ==
    IF ad.gen = "GR2"
    THEN Returns(List(<<Scalar("single"), Scalar("intervalComp"),
                        Scalar("interval"), Scalar("continuous"),
                        Scalar("bracket")>>))
    ELSE Returns(List([i \in 1..Len(shootModeLookupEntries) |->
                          Scalar(shootModeLookupEntries[i][1])]))

\* shootModeReverseMap[shootMode]!.<field>: reading a field of undefined is
\* a TypeError.
ReverseLookup(shootMode, field) ==
    IF shootMode \in DOMAIN shootModeReverseMap
    THEN Returns(Scalar(shootModeReverseMap[shootMode][field]))
    ELSE Throws("TypeError")

\* getDriveMode()
getDriveMode(ad) ==
    IF ad.gen = "GR2" THEN Throws("NotSupported")
    ELSE LET shootMode == Cached(ad, "shootMode")
         IN  IF shootMode # Undefined
             THEN ReverseLookup(shootMode.scalar, "driveMode")
             ELSE Throws("NotFound")

\* getSelfTimerOptionList(): the keys of shootModeLookup[this.getDriveMode()]
getSelfTimerOptionList(ad) ==
    IF ad.gen = "GR2" THEN Throws("NotSupported")
    ELSE LET driveMode == getDriveMode(ad)
         IN  IF driveMode.result # "value" THEN driveMode
             ELSE LET selfTimerMap ==
                          ObjectOf(shootModeLookupEntries)[driveMode.value.scalar]
                  IN  Returns(List([i \in 1..Len(selfTimerMap) |->
                                       Scalar(selfTimerMap[i][1])]))

\* getSelfTimerOption()
getSelfTimerOption(ad) ==
    IF ad.gen = "GR2" THEN Throws("NotSupported")
    ELSE LET shootMode == Cached(ad, "shootMode")
         IN  IF shootMode # Undefined
             THEN ReverseLookup(shootMode.scalar, "selfTimer")
             ELSE Throws("NotFound")

\* The body of a settings write: `${key}=${value}` of every entry, joined
\* by '&'.
RawData(settings) ==
    Join([i \in 1..Len(settings) |-> settings[i][1] \o "=" \o settings[i][2]],
         "&")

\* setCaptureSettings(settings), up to its first await: the write.
setCaptureSettings(ad, settings) ==
    Sends(Req("PUT", "/v1/params/camera", RawData(settings)))

\* setShootMode that refuses a self-timer option the drive mode lacks.
setShootMode_Strict(ad, driveMode, selfTimerOption) ==
    IF ad.gen = "GR2" THEN Throws("NotSupported")
    ELSE IF driveMode \notin DOMAIN shootModeLookup THEN Throws("TypeError")
    ELSE IF selfTimerOption \in DOMAIN shootModeLookup[driveMode]
    THEN setCaptureSettings(ad,
            << <<"shootMode", shootModeLookup[driveMode][selfTimerOption]>> >>)
    ELSE Throws("InvalidArgument")

\* setShootMode(driveMode, selfTimerOption): Object.keys of an unknown drive
\* mode's entry, undefined, is a TypeError.
setShootMode(ad, driveMode, selfTimerOption) ==
    IF ad.gen = "GR2" THEN Throws("NotSupported")
    ELSE IF driveMode \notin DOMAIN shootModeLookup THEN Throws("TypeError")
    ELSE IF selfTimerOption \in DOMAIN shootModeLookup[driveMode]
    THEN setCaptureSettings(ad,
            << <<"shootMode", shootModeLookup[driveMode][selfTimerOption]>> >>)
    ELSE setCaptureSettings(ad,
            << <<"shootMode", shootModeLookup[driveMode]["off"]>> >>)

\* refreshDisplay() that sends the command on both generations.
refreshDisplay_Both(ad) == Sends(Req("POST", "/_gr", "cmd=mode refresh"))

\* refreshDisplay()
refreshDisplay(ad) ==
    IF ad.gen = "GR2" THEN Sends(Req("POST", "/_gr", "cmd=mode refresh"))
    ELSE Throws("NotSupported")

\* FOCUS_MODE_TO_COMMAND_MAP
FOCUS_MODE_TO_COMMAND_MAP ==
    << <<"multiauto", "mpset=FOCUS FOCUS_MODE_MULTI">>,
       <<"spot", "mpset=FOCUS FOCUS_MODE_SPOT">>,
       <<"pinpoint", "mpset=FOCUS FOCUS_MODE_PINPOINT">>,
       <<"tracking", "mpset=FOCUS FOCUS_MODE_TRACKING">>,
       <<"snap", "mpset=FOCUS FOCUS_MODE_SNAP">>,
       <<"MF", "mpset=FOCUS FOCUS_MODE_MANUAL">>,
       <<"inf", "mpset=FOCUS FOCUS_MODE_INFINITY">> >>

\* setFocusMode(mode)
setFocusMode(ad, mode) ==
    IF ad.gen = "GR2"
    THEN IF mode \in Keys(FOCUS_MODE_TO_COMMAND_MAP)
         THEN Sends(Req("POST", "/_gr", ObjectOf(FOCUS_MODE_TO_COMMAND_MAP)[mode]))
         ELSE Throws("InvalidArgument")
    ELSE Throws("NotSupported")

\* An adapter method is called and ends as `out` says, before any response.
\* A settings write stays in flight.
Method(op, arg, out) ==
    /\ ret' = [op |-> op, arg |-> arg, result |-> out.result,
               value |-> out.value, sent |-> out.sent]
    /\ calls' = IF \E i \in 1..Len(out.sent) : out.sent[i].method = "PUT"
                THEN Append(calls, "write") ELSE calls
    /\ Len(calls') <= MaxInFlight
    /\ UNCHANGED <<fvars, pvars, diff, shootModeReverseMap, reachable>>

LockFocus(x, y) == Method("lockFocus", <<x, y>>, lockFocus(ads[1], x, y))

GetDriveModeList == Method("getDriveModeList", <<>>, getDriveModeList(ads[1]))

GetDriveMode == Method("getDriveMode", <<>>, getDriveMode(ads[1]))

GetSelfTimerOptionList ==
    Method("getSelfTimerOptionList", <<>>, getSelfTimerOptionList(ads[1]))

GetSelfTimerOption ==
    Method("getSelfTimerOption", <<>>, getSelfTimerOption(ads[1]))

SetShootMode(driveMode, selfTimerOption) ==
    Method("setShootMode", <<driveMode, selfTimerOption>>,
           setShootMode(ads[1], driveMode, selfTimerOption))

SetCaptureSettings(settings) ==
    Method("setCaptureSettings", settings, setCaptureSettings(ads[1], settings))

RefreshDisplay == Method("refreshDisplay", <<>>, refreshDisplay(ads[1]))

SetFocusMode(mode) ==
    Method("setFocusMode", <<mode>>, setFocusMode(ads[1], mode))

\* The calls in flight without the i-th.
Without(i) == [j \in 1..(Len(calls) - 1) |-> IF j < i THEN calls[j] ELSE calls[j + 1]]

\* A continuation of setCaptureSettings after the write in which no
\* generation refreshes the display.
AfterWrite_NoRefresh(ad) == [result |-> "value", value |-> Scalar("response.data"), sent |-> <<>>]

\* The continuation of setCaptureSettings after the write has succeeded: the
\* older generation awaits refreshDisplay() before it returns response.data.
AfterWrite(ad) ==
    IF ad.gen = "GR2"
    THEN refreshDisplay(ad)
    ELSE Returns(Scalar("response.data"))

\* The request that the i-th call in flight awaits succeeds.
RequestSucceeded(i) ==
    /\ i \in 1..Len(calls)
    /\ LET out == IF calls[i] = "write" THEN AfterWrite(ads[1])
                  ELSE Returns(Scalar("response.data"))
       IN  /\ ret' = [op |-> "succeeded", arg |-> <<calls[i]>>,
                      result |-> out.result, value |-> out.value,
                      sent |-> out.sent]
           /\ calls' = IF out.sent # <<>>
                       THEN [calls EXCEPT ![i] = "refresh"]
                       ELSE Without(i)
    /\ UNCHANGED <<fvars, pvars, diff, shootModeReverseMap, reachable>>

\* The request that the i-th call in flight awaits fails: the call's promise
\* rejects with the transport error.
RequestFailed(i) ==
    /\ i \in 1..Len(calls)
    /\ ret' = [op |-> "failed", arg |-> <<calls[i]>>, result |-> "Transport",
               value |-> Undefined, sent |-> <<>>]
    /\ calls' = Without(i)
    /\ UNCHANGED <<fvars, pvars, diff, shootModeReverseMap, reachable>>

\* The shoot-mode strings a cached snapshot can hold: those of the table and
\* one the table lacks.
ShootModes ==
    {shootModeLookup[d][t] : d \in DOMAIN shootModeLookup, t \in {"off"}}
        \cup {"intervalSelf10s", "self2s", "movie"}

\* The caches of the adapter: none, a snapshot without shootMode, and a
\* snapshot with each of the shoot modes.
MethodCaches(gen) ==
    LET base == Snapshot(ModelOf(gen), {})
    IN  {Null, base}
          \cup {[k \in DOMAIN base \cup {"shootMode"} |->
                    IF k = "shootMode" THEN Scalar(m) ELSE base[k]] :
                m \in ShootModes}

\* The arguments of the methods.
Coordinates == {-1, 0, 4, 505, 506, 1000, 1001}
DriveModeArgs == DOMAIN shootModeLookup \cup {"movie"}
TimerArgs == {"off", "2s", "10s", "5s"}
SettingsArgs ==
    {<< <<"av", "4.0">> >>, << <<"av", "4.0">>, <<"shootMode", "single">> >>}

\* An adapter, connected or not, with one of the caches, once the module is
\* loaded.
InitMethods ==
    /\ InitCommon
    /\ diff = NoDiff
    /\ \E gen \in {"GR2", "GR3"} : \E cache \in MethodCaches(gen) :
          ads = [a \in AdapterIds |->
                    IF a = 1
                    THEN [NewAdapter(gen) EXCEPT !.held = TRUE,
                                                 !.isConnected = cache # Null,
                                                 !.info = cache]
                    ELSE NoAdapter]

NextMethods ==
    \/ \E x \in Coordinates, y \in Coordinates : LockFocus(x, y)
    \/ GetDriveModeList
    \/ GetDriveMode
    \/ GetSelfTimerOptionList
    \/ GetSelfTimerOption
    \/ \E d \in DriveModeArgs, t \in TimerArgs : SetShootMode(d, t)
    \/ \E settings \in SettingsArgs : SetCaptureSettings(settings)
    \/ RefreshDisplay
    \/ \E mode \in {"MF", "bogus"} : SetFocusMode(mode)
    \/ \E i \in 1..MaxInFlight : RequestSucceeded(i)
    \/ \E i \in 1..MaxInFlight : RequestFailed(i)

SpecMethods == InitMethods /\ [][NextMethods]_vars

\* ------------------------------------------------------------------------
\* Properties of the poll-and-diff cycle
\* ------------------------------------------------------------------------
\* The cache at the beginning of the step just taken, as a mapping (an empty
\* cache has no key).
PrevMap == IF last.prev = Null THEN <<>> ELSE last.prev

\* Property key differs between the mappings o1 and o2.
Differs(o1, o2, key) ==
    \/ (key \in DOMAIN o1) # (key \in DOMAIN o2)
    \/ key \in DOMAIN o1 /\ key \in DOMAIN o2 /\ o1[key] # o2[key]

\* The properties in which the fetched body differs from the previous cache.
ChangedKeys ==
    {key \in DOMAIN PrevMap \cup DOMAIN last.data : Differs(PrevMap, last.data, key)}

\* The keys the comparison leaves out, per generation.
Excluded == IF ads[last.ad].gen = "GR2" THEN {"datetime", "storages"} ELSE {"datetime"}

\* The difference record of the step just taken.
DifferenceRecord ==
    [key \in ChangedKeys \ Excluded |->
        [obj1 |-> Get(PrevMap, key), obj2 |-> Get(last.data, key)]]

\* The semantic categories of a generation: event name and trigger keys.
Categories ==
    {[name |-> "captureSettingsChanged", keys |-> EVENT_KEY_MAP.CaptureSettingsChanged],
     [name |-> "focusChanged", keys |-> EVENT_KEY_MAP.FocusChanged]}
    \cup (IF ads[last.ad].gen = "GR2" THEN {}
          ELSE {[name |-> "storageChanged", keys |-> EVENT_KEY_MAP.StorageChanged],
                [name |-> "orientationChanged",
                 keys |-> EVENT_KEY_MAP.OrientationChanged]})

\* The number of events of the given name emitted in the step just taken.
Count(name) == Cardinality({i \in 1..Len(emitted) : emitted[i].name = name})

Emits(name, args) ==
    \E i \in 1..Len(emitted) : emitted[i].name = name /\ emitted[i].args = args

\* C1: when a fetch dispatched by a tick of a Disconnected adapter with an
\* empty cache succeeds with snapshot S, the adapter is Connected, info and
\* captureSettings both return S, and it emits Connected with S and nothing
\* else.
C1_ConnectOnSuccess ==
    (last.op = "resolved" /\ last.branch = "disc" /\ ~last.wasConnected
     /\ last.prev = Null)
    => /\ isConnected(last.ad)
       /\ info(last.ad) = last.data
       /\ captureSettings(last.ad) = last.data
       /\ Len(emitted) = 1
       /\ emitted[1].name = "connected"
       /\ emitted[1].args = <<last.data>>

C1_Witness ==
    /\ last.op = "resolved" /\ last.branch = "disc" /\ ~last.wasConnected
    /\ last.prev = Null
    /\ last.data = Snapshot("GR III", {})
    /\ isConnected(last.ad)
    /\ captureSettings(last.ad)["av"] = Scalar("2.8")

\* C2: when the fetch of a tick dispatched by a Connected adapter returns a
\* snapshot that differs from the cache in a non-excluded key, the cache
\* becomes that snapshot and each category's event is emitted with (new
\* snapshot, difference record) exactly when one of its trigger keys changed;
\* a change of av alone from 2.8 to 4.0 emits CaptureSettingsChanged with
\* {av: (2.8, 4.0)} and no FocusChanged.
C2_EventsPerCategory ==
    (last.op = "resolved" /\ last.branch = "conn" /\ ChangedKeys \ Excluded # {})
    => /\ info(last.ad) = last.data
       /\ \A c \in Categories :
             /\ Count(c.name) > 0 <=> c.keys \cap ChangedKeys # {}
             /\ Count(c.name) > 0 => Emits(c.name, <<last.data, DifferenceRecord>>)
       /\ \A i \in 1..Len(emitted) : \E c \in Categories : emitted[i].name = c.name
       /\ (ChangedKeys = {"av"} /\ last.prev["av"] = Scalar("2.8")
           /\ last.data["av"] = Scalar("4.0"))
          => /\ Emits("captureSettingsChanged",
                      <<last.data,
                        [k \in {"av"} |-> [obj1 |-> Scalar("2.8"),
                                           obj2 |-> Scalar("4.0")]]>>)
             /\ Count("focusChanged") = 0

C2_Witness ==
    /\ last.op = "resolved" /\ last.branch = "conn" /\ last.wasConnected
    /\ ChangedKeys = {"av"}
    /\ last.prev["av"] = Scalar("2.8") /\ last.data["av"] = Scalar("4.0")
    /\ Count("captureSettingsChanged") = 1
    /\ Count("focusChanged") = 0

\* C3: when the fetch of a tick dispatched by a Connected adapter fails, the
\* adapter is Disconnected, info and captureSettings return null, and it
\* emits Disconnected (once, without arguments).
C3_DisconnectOnFailure ==
    (last.op = "rejected" /\ last.branch = "conn")
    => /\ ~isConnected(last.ad)
       /\ info(last.ad) = Null
       /\ captureSettings(last.ad) = Null
       /\ Len(emitted) = 1
       /\ emitted[1].name = "disconnected"
       /\ emitted[1].args = <<>>

C3_Witness ==
    /\ last.op = "rejected" /\ last.branch = "conn" /\ last.wasConnected
    /\ last.prev # Null
    /\ ~isConnected(last.ad) /\ info(last.ad) = Null
    /\ Count("disconnected") = 1

\* C4: a failure of a poll tick's fetch never ends in an unhandled promise
\* rejection, whether the tick was dispatched Connected or Disconnected.
C4_FailureHandledInTick ==
    last.op = "rejected" => ~unhandled

\* C5: the failure of a fetch dispatched by a Disconnected adapter changes
\* nothing: the adapter stays Disconnected, its cache is what it was (null
\* when it was null), the poller runs as before and no event is emitted.
C5_FailureWhileDisconnected ==
    (last.op = "rejected" /\ last.branch = "disc" /\ ~last.wasConnected)
    => /\ ~isConnected(last.ad)
       /\ info(last.ad) = last.prev
       /\ ads[last.ad].polling = last.wasPolling
       /\ emitted = <<>>

C5_Witness ==
    /\ last.op = "rejected" /\ last.branch = "disc" /\ ~last.wasConnected
    /\ last.prev = Null /\ last.wasPolling
    /\ info(last.ad) = Null /\ ads[last.ad].polling /\ emitted = <<>>

\* C6: in one poll tick each semantic event is emitted at most once, also
\* when several of its trigger keys changed.
C6_AtMostOncePerTick ==
    \A name \in {"captureSettingsChanged", "focusChanged", "storageChanged",
                 "orientationChanged"} : Count(name) <= 1

C6_Witness ==
    /\ last.op = "resolved" /\ last.branch = "conn"
    /\ {"av", "focusSetting"} \subseteq ChangedKeys
    /\ Count("captureSettingsChanged") = 1

\* C7: when the fetched snapshot of a Connected adapter's tick differs from
\* the cache only in excluded keys (datetime; on the older generation also
\* storages), no event is emitted.
C7_ExcludedKeysAreSilent ==
    (last.op = "resolved" /\ last.branch = "conn" /\ last.wasConnected
     /\ ChangedKeys # {} /\ ChangedKeys \subseteq Excluded)
    => emitted = <<>>

C7_Witness ==
    /\ last.op = "resolved" /\ last.branch = "conn" /\ last.wasConnected
    /\ ads[last.ad].gen = "GR2"
    /\ ChangedKeys = {"datetime", "storages"}
    /\ emitted = <<>>

\* C8 as stated: after every poll tick whose fetch succeeds the cache is
\* exactly the snapshot returned by that fetch.
C8_CacheIsFetchedSnapshot ==
    last.op = "resolved" => info(last.ad) = last.data

\* C8 as amended: after every poll tick whose fetch succeeds the cache
\* agrees with the fetched snapshot in every key that is not excluded from
\* the comparison, and it is exactly that snapshot when the tick was
\* dispatched Disconnected or a non-excluded key differed.
C8_CacheAgreesOutsideExcluded ==
    last.op = "resolved"
    => LET now == IF info(last.ad) = Null THEN <<>> ELSE info(last.ad)
       IN  /\ \A key \in (DOMAIN now \cup DOMAIN last.data) \ Excluded :
                 ~Differs(now, last.data, key)
           /\ (last.branch = "disc" \/ ChangedKeys \ Excluded # {})
              => info(last.ad) = last.data

C8_Witness ==
    /\ last.op = "resolved" /\ last.branch = "conn" /\ last.wasConnected
    /\ ChangedKeys = {"datetime"}
    /\ info(last.ad) = last.prev
    /\ info(last.ad) # last.data

\* ------------------------------------------------------------------------
\* Properties of the facade
\* ------------------------------------------------------------------------
\* The operations C9 lists as requiring an adapter.
RequireAdapter ==
    {"capturePhoto", "lockFocus", "getStatus", "getCaptureSettings",
     "setCaptureSettings", "setDialMode", "setFocusMode", "sendCommand",
     "refreshDisplay", "getLiveViewURL", "startListeningToEvents",
     "stopListeningToEvents", "setPollInterval", "setPollIntervalTemporarily"}

\* C9: whenever the facade holds no active adapter, each of the listed
\* operations that require an adapter fails with NotConnected and sends no
\* network request.
C9_NoAdapterFailsNotConnected ==
    (last.op \in RequireAdapter /\ last.hadAdapter = 0)
        => (last.result = "NotConnected" /\ sent = <<>>)

\* sendCommand is called on a facade that holds no adapter while one of its
\* identity probes is in flight.
C9_Witness ==
    /\ last.op = "sendCommand"
    /\ last.hadAdapter = 0
    /\ last.result = "NotConnected"
    /\ probes > 0

\* The events of the step just taken, as the facade re-emits them verbatim.
Verbatim == [i \in 1..Len(emitted) |-> Event(emitted[i].name, emitted[i].args)]

\* C10: while an adapter is active, every event it emits is re-emitted by
\* the facade exactly once, with the same event name and the same arguments:
\* the facade's emissions of a step in which the active adapter emits are
\* that adapter's emissions, one for one.
C10_ActiveEventsForwardedOnce ==
    (emitted # <<>> /\ emitted[1].active) => femitted = Verbatim

\* The active adapter of the newer generation emits its four change events
\* in one tick and the facade re-emits them.
C10_Witness ==
    /\ last.op = "resolved"
    /\ Len(emitted) = 4
    /\ emitted[1].active
    /\ emitted[3].name = "storageChanged"
    /\ Len(femitted) = 4

\* The step just taken is adapter last.ad emitting Disconnected while it was
\* the facade's active adapter.
ActiveDisconnected ==
    /\ last.op = "rejected"
    /\ emitted # <<>>
    /\ emitted[1].name = "disconnected"
    /\ emitted[1].active

\* C11: on the first Disconnected event of the active adapter the facade
\* detaches every forwarding listener it registered on that adapter, empties
\* its listener list and clears the adapter reference (isConnected false,
\* info null, a guarded operation would fail with NotConnected); and a call
\* of startCameraDetectionAndPairing made when no adapter is held leaves the
\* detection timer armed.
C11_TeardownOnDisconnected ==
    /\ ActiveDisconnected =>
          /\ ads[last.ad].fwd = {}
          /\ ~ads[last.ad].once
          /\ adapterListeners = <<>>
          /\ adapter = 0
          /\ ~FacadeIsConnected
          /\ FacadeInfo = Null
          /\ ~unhandled
    /\ (last.op = "startCameraDetectionAndPairing" /\ adapter = 0) => intervalId

\* The active adapter emits Disconnected while an older adapter of the facade
\* still exists.
C11_Witness ==
    /\ ActiveDisconnected
    /\ adapter = 0
    /\ Constructed = 2

\* C12: the detection loop never issues an identity probe while an adapter is
\* active: a detection tick that fires when the facade holds an adapter sends
\* no request.
C12_NoProbeWhileActive ==
    (last.op = "detect" /\ last.hadAdapter # 0) => sent = <<>>

\* The detection timer, armed again by the caller after pairing, fires while
\* the facade holds a connected adapter.
C12_Witness ==
    /\ last.op = "detect"
    /\ last.hadAdapter # 0
    /\ FacadeIsConnected
    /\ sent = <<>>

\* The adapter implementation C13 assigns to a model identity: the older
\* generation's for 'GR II', the newer generation's for 'GR III' and its
\* dial-list variant for 'GR IV'.
Implementation(model) ==
    CASE model = Scalar("GR II") -> "GR2"
      [] model = Scalar("GR III") -> "GR3"
      [] model = Scalar("GR IV") -> "GR4"
      [] OTHER -> "none"

\* C13: a probe response with a model identity stops the detection loop and
\* makes the adapter implementation matching the model the active adapter; a
\* response without a model identity instantiates no adapter and leaves the
\* detection loop as it was.
C13_AdapterMatchesModel ==
    last.op = "probeResolved" =>
        IF "model" \in DOMAIN last.data
        THEN /\ ~intervalId
             /\ adapter = last.ad
             /\ adapter # 0
             /\ ads[adapter].gen = Implementation(last.data["model"])
        ELSE /\ last.ad = 0
             /\ adapter = last.hadAdapter
             /\ intervalId = last.wasArmed

\* C13 without its variant: the statement for the models 'GR II' and
\* 'GR III' and for a body without a model.
C13_TwoFamilies ==
    (last.op = "probeResolved"
        /\ ("model" \in DOMAIN last.data => last.data["model"] # Scalar("GR IV")))
    => C13_AdapterMatchesModel

\* The facade's adapter as it was when the method of the step just taken was
\* called (a method changes at most whether the poller is armed).
CalledAdapter == [ads[last.hadAdapter] EXCEPT !.polling = last.wasPolling]

InPhase(t) == (elapsed + t.left) % t.period = 0

\* C15: whatever start, stop, setIntervalMs and setIntervalTemporarily calls
\* and timer firings have happened, at most one timer is armed and it is the
\* one the poller holds; after start the only timer is a new one at the
\* current interval, so the callback never runs twice at the same time; after
\* stop no timer is armed.
C15_AtMostOneTimer ==
    /\ Cardinality(poller.timers) <= 1
    /\ \A t \in poller.timers : t.id = poller.intervalId
    /\ poller.intervalId # 0 => poller.timers # {}
    /\ \A i, j \in 1..Len(fired) : i < j => fired[i] < fired[j]
    /\ pcall.op = "start" =>
          /\ poller.intervalId # 0
          /\ \A t \in poller.timers :
                ~t.temporary /\ t.period = poller.currentInterval /\ InPhase(t)
    /\ pcall.op = "stop" => poller.timers = {} /\ poller.intervalId = 0

\* start() was called on a poller that ran a temporary timer, and the
\* callback has run twice since.
C15_Witness ==
    /\ pcall.op = "start"
    /\ \E t \in pcall.before.timers : t.temporary /\ t.left < t.period
    /\ Len(fired) >= 2
    /\ Cardinality(poller.timers) = 1

\* The time, counted from a call setIntervalTemporarily(ms, cycles), at which
\* the callback should run for the i-th time.
Expected(i) ==
    LET n == pcall.cycles \div 2
    IN  IF i <= n THEN i * pcall.ms
        ELSE n * pcall.ms + (i - n) * defaultInterval

\* C16: after setIntervalTemporarily(ms, cycles) with an integer cycles >= 1
\* and no other call, the callback runs at ms, 2 ms, ..., cycles * ms, then
\* one default interval later and from then on at the default interval: no
\* invocation is early, late or missing, and once the cycles are over the
\* poller runs a plain timer at the default interval.
C16_TemporaryThenDefault ==
    (pcall.op = "setIntervalTemporarily" /\ pcall.result = "void") =>
        /\ \A i \in 1..Len(fired) : fired[i] = Expected(i)
        /\ elapsed <= Expected(Len(fired) + 1)
        /\ Num(Len(fired)) >= pcall.cycles =>
              /\ poller.currentInterval = defaultInterval
              /\ \E t \in poller.timers :
                    /\ poller.timers = {t}
                    /\ ~t.temporary
                    /\ t.period = defaultInterval

\* Two cycles at an interval other than the default one, on a poller whose
\* current interval was not the default one either, were followed by two
\* invocations at the default interval.
C16_Witness ==
    /\ pcall.op = "setIntervalTemporarily"
    /\ pcall.cycles = Num(2)
    /\ pcall.ms # defaultInterval
    /\ pcall.before.currentInterval # defaultInterval
    /\ Len(fired) = 4
    /\ fired[4] = 2 * pcall.ms + 2 * defaultInterval

\* The last call was setIntervalTemporarily, or an adapter's
\* setPollIntervalTemporarily, with a `cycles` that is not an integer >= 1.
RejectedCycles ==
    /\ pcall.op = "setIntervalTemporarily"
    /\ pcall.cycles \notin {Num(k) : k \in 1..MaxCycles}

\* C17: setIntervalTemporarily, and the adapters' setPollIntervalTemporarily,
\* with a `cycles` that is not an integer >= 1 fails with InvalidArgument and
\* touches nothing: as the call returns, the poller's timer, its current
\* interval and the time left until each invocation are those before the
\* call.
C17_InvalidCyclesTouchNothing ==
    RejectedCycles =>
        /\ pcall.result = "InvalidArgument"
        /\ (elapsed = 0 /\ fired = <<>>) => poller = pcall.before

\* An adapter's setPollIntervalTemporarily was called with cycles = 1.5 while
\* a temporary timer was half way through its cycles and its period.
C17_Witness ==
    /\ RejectedCycles
    /\ pcall.via = "adapter"
    /\ pcall.cycles = Num(1) + 1
    /\ pcall.result = "InvalidArgument"
    /\ \E t \in pcall.before.timers :
          t.temporary /\ t.count = 1 /\ t.left \in 1..(t.period - 1)
    /\ poller = pcall.before

\* C18: after stop() the callback does not run until the poller is armed
\* again; stop() called after start() before one interval has elapsed means
\* the callback has not run at all, before or after the stop; and stop() on a
\* stopped poller changes nothing.
C18_StopIsQuiet ==
    pcall.op = "stop" =>
        /\ fired = <<>>
        /\ (pcall.after.op = "start" /\ pcall.after.early) => ~pcall.after.ran
        /\ pcall.before.intervalId = 0 => poller = pcall.before

\* stop() was called after start() just before the interval elapsed, and
\* several intervals have passed since without an invocation.
C18_Witness ==
    /\ pcall.op = "stop"
    /\ pcall.after.op = "start"
    /\ pcall.after.early
    /\ ~pcall.after.ran
    /\ \E t \in pcall.before.timers : t.left = 1 /\ t.period > 1
    /\ elapsed >= 2 * poller.currentInterval
    /\ fired = <<>>

\* C19: setIntervalMs(ms) on a running poller takes effect at once: the
\* timer that ran is gone and the only timer is a plain one at ms, and the
\* callback runs ms after the call and every ms from then on, never at a
\* time the previous timer would have fired.
C19_NewIntervalAtOnce ==
    (pcall.op = "setIntervalMs" /\ pcall.before.intervalId # 0) =>
        /\ poller.currentInterval = pcall.ms
        /\ \E t \in poller.timers :
              /\ poller.timers = {t}
              /\ ~t.temporary
              /\ t.period = pcall.ms
        /\ \A i \in 1..Len(fired) : fired[i] = i * pcall.ms
        /\ elapsed <= (Len(fired) + 1) * pcall.ms

\* setIntervalMs(ms) was called when the running timer, at another period,
\* was to fire in less than ms, and the callback has run twice since.
C19_Witness ==
    /\ pcall.op = "setIntervalMs"
    /\ \E t \in pcall.before.timers :
          t.id = pcall.before.intervalId /\ t.left < pcall.ms /\ t.period # pcall.ms
    /\ Len(fired) = 2
    /\ fired[1] = pcall.ms

\* The last call was made on a stopped poller.
OnStoppedPoller == pcall.before.intervalId = 0 /\ pcall.before.timers = {}

DuringOverride == \E t \in pcall.before.timers : t.temporary

\* C39: when the temporary cycles are over, the stored current interval and
\* the timer's period are the default interval, whatever the current
\* interval was before the override; after a start or setIntervalMs call
\* made during an override the timer is a plain one at the current interval
\* and every invocation follows that interval: the remaining temporary
\* cycles are cancelled.
C39_OverrideEndsAtDefault ==
    /\ (pcall.op = "setIntervalTemporarily" /\ pcall.result = "void"
          /\ Num(Len(fired)) >= pcall.cycles) =>
          /\ poller.currentInterval = defaultInterval
          /\ \A t \in poller.timers : ~t.temporary /\ t.period = defaultInterval
          /\ poller.timers # {}
          /\ \A i \in 1..Len(fired) :
                Num(i - 1) >= pcall.cycles => fired[i] - fired[i - 1] = defaultInterval
    /\ (pcall.op \in {"start", "setIntervalMs"} /\ DuringOverride) =>
          /\ poller.currentInterval =
                IF pcall.op = "start" THEN pcall.before.currentInterval
                ELSE pcall.ms
          /\ \A t \in poller.timers :
                ~t.temporary /\ t.period = poller.currentInterval
          /\ poller.timers # {}
          /\ \A i \in 1..Len(fired) : fired[i] = i * poller.currentInterval

\* Two temporary cycles on a poller whose current interval had been set to
\* another value than the default one have ended, and the callback has run
\* once more at the default interval.
C39_Witness ==
    /\ pcall.op = "setIntervalTemporarily"
    /\ pcall.cycles = Num(2)
    /\ pcall.before.currentInterval # defaultInterval
    /\ Len(fired) = 3
    /\ poller.currentInterval = defaultInterval

\* ------------------------------------------------------------------------
\* Properties of the difference engine
\* ------------------------------------------------------------------------
\* The value of a property in a snapshot; a missing property is absent.
ValueIn(o, key) == IF key \in DOMAIN o THEN o[key] ELSE Undefined

\* C20: findDifferences(a, b, E) reports exactly the properties of a or b
\* that are not in E and whose values differ (a missing property being
\* absent, which differs from every value), each with its value in a and its
\* value in b; size is the number of reported properties; and with an empty a
\* and an empty E every property of b is reported.
C20_ExactDifferences ==
    diff.result # Null =>
        LET a == diff.obj1
            b == diff.obj2
            E == diff.excludedKeys
            reported == DOMAIN diff.result.differences
        IN  /\ reported = {k \in DOMAIN a \cup DOMAIN b :
                              k \notin E /\ Differs(a, b, k)}
            /\ \A k \in reported :
                  /\ diff.result.differences[k].obj1 = ValueIn(a, k)
                  /\ diff.result.differences[k].obj2 = ValueIn(b, k)
            /\ diff.result.size = Cardinality(reported)
            /\ (DOMAIN a = {} /\ E = {}) => reported = DOMAIN b

\* Two snapshots were compared whose string lists differ in order only and
\* whose storages differ but are excluded: one difference is reported.
C20_Witness ==
    /\ diff.result # Null
    /\ diff.obj1 = [av |-> List(<<Scalar("a"), Scalar("b")>>),
                    storages |-> List(<<Storage("1")>>)]
    /\ diff.obj2 = [av |-> List(<<Scalar("b"), Scalar("a")>>),
                    storages |-> List(<<Storage("2")>>)]
    /\ diff.excludedKeys = {"storages", "datetime"}
    /\ DOMAIN diff.result.differences = {"av"}
    /\ diff.result.size = 1

\* C21: findDifferences of a snapshot and a structurally equal one, for any
\* exclusion set, reports no key and size 0. (The model's objects are never
\* the same reference, so the two arguments are distinct objects; with the
\* same reference obj1 === obj2 already holds for every value.)
C21_NoSelfDifferences ==
    (diff.result # Null /\ diff.obj1 = diff.obj2) =>
        /\ DOMAIN diff.result.differences = {}
        /\ diff.result.size = 0

\* A snapshot with a nested mapping and a list of objects was compared with
\* an equal one, nothing excluded.
C21_Witness ==
    /\ diff.result # Null
    /\ diff.obj1 = [av |-> Nested("1"), storages |-> List(<<Storage("2")>>)]
    /\ diff.obj2 = diff.obj1
    /\ diff.excludedKeys = {}
    /\ diff.result.size = 0

\* ------------------------------------------------------------------------
\* Properties of the shoot-mode tables and of the adapters' methods
\* ------------------------------------------------------------------------
\* The (drive mode, self-timer option) pairs of the forward table.
ForwardPairs ==
    {p \in (DOMAIN shootModeLookup) \X {"off", "2s", "10s"} :
        p[2] \in DOMAIN shootModeLookup[p[1]]}

\* C22: the reverse map is the inverse of the forward table: every entry
\* (driveMode, selfTimer) -> mode has shootModeReverseMap[mode] =
\* {driveMode, selfTimer}, no two entries have the same mode, and the reverse
\* map has as many entries as the forward table has pairs.
C22_ReverseIsInverse ==
    /\ \A p \in ForwardPairs :
          LET mode == shootModeLookup[p[1]][p[2]]
          IN  /\ mode \in DOMAIN shootModeReverseMap
              /\ shootModeReverseMap[mode] =
                    [driveMode |-> p[1], selfTimer |-> p[2]]
    /\ \A p, q \in ForwardPairs :
          shootModeLookup[p[1]][p[2]] = shootModeLookup[q[1]][q[2]] => p = q
    /\ Cardinality(DOMAIN shootModeReverseMap) = Cardinality(ForwardPairs)

\* The reverse map holds the sixteen modes of the table, and getDriveMode has
\* read the entry of 'intervalSelf10s' from it.
C22_Witness ==
    /\ Cardinality(DOMAIN shootModeReverseMap) = 16
    /\ shootModeReverseMap["intervalSelf10s"] =
          [driveMode |-> "interval", selfTimer |-> "10s"]
    /\ ret.op = "getDriveMode"
    /\ ret.value = Scalar("interval")

\* The integer nearest to a coordinate given in tenths.
Nearest(x) == CHOOSE n \in -1..101 : 10 * n - 5 <= x /\ x < 10 * n + 5

\* C23: lockFocus(x, y) on either adapter fails with InvalidArgument and
\* sends nothing when x or y is outside [0, 100]; otherwise it sends exactly
\* one focus request, whose body carries x and y rounded to the nearest
\* integer.
C23_LockFocusValidatesAndRounds ==
    ret.op = "lockFocus" =>
        LET x == ret.arg[1]
            y == ret.arg[2]
        IN  IF x < 0 \/ x > 1000 \/ y < 0 \/ y > 1000
            THEN ret.result = "InvalidArgument" /\ ret.sent = <<>>
            ELSE /\ Len(ret.sent) = 1
                 /\ ret.sent[1].method = "POST"
                 /\ ret.sent[1].path =
                       (IF ads[1].gen = "GR2" THEN "/v1/lens/focus/lock"
                        ELSE "/v1/lens/focus")
                 /\ ret.sent[1].body =
                       "pos=" \o ToString(Nearest(x)) \o "," \o ToString(Nearest(y))

\* lockFocus(50.6, 0.4) was called on the older generation and sent 51 and 0.
C23_Witness ==
    /\ ret.op = "lockFocus"
    /\ ret.arg = <<506, 4>>
    /\ ads[1].gen = "GR2"
    /\ Len(ret.sent) = 1
    /\ ret.sent[1].body = "pos=51,0"

\* The step just taken is a call of op on the older-generation adapter.
OlderGenerationCall(ops) == ads[1].gen = "GR2" /\ ret.op \in ops

\* C24: on the older-generation adapter the drive-mode list, drive-mode get,
\* self-timer list, self-timer get and combined shoot-mode set all fail with
\* NotSupported, send no request and return no value.
C24_OlderGenerationUnsupported ==
    OlderGenerationCall({"getDriveModeList", "getDriveMode",
                         "getSelfTimerOptionList", "getSelfTimerOption",
                         "setShootMode"}) =>
        /\ ret.result = "NotSupported"
        /\ ret.sent = <<>>
        /\ ret.value = Undefined

\* The same for the four operations other than the drive-mode list.
C24_AllButTheList ==
    OlderGenerationCall({"getDriveMode", "getSelfTimerOptionList",
                         "getSelfTimerOption", "setShootMode"}) =>
        /\ ret.result = "NotSupported"
        /\ ret.sent = <<>>
        /\ ret.value = Undefined

\* The step just taken is a call of op on the newer-generation adapter.
NewerGenerationCall(ops) == ads[1].gen = "GR3" /\ ret.op \in ops

\* C25: on the newer-generation adapter refreshDisplay and setFocusMode fail
\* with NotSupported and send no request, whatever the argument and whether
\* the adapter is connected or not.
C25_NewerGenerationUnsupported ==
    NewerGenerationCall({"refreshDisplay", "setFocusMode"}) =>
        /\ ret.result = "NotSupported"
        /\ ret.sent = <<>>

\* Both operations have been refused, on a connected adapter and on one that
\* is not, setFocusMode for a mode the older generation knows.
C25_Witness ==
    /\ NewerGenerationCall({"setFocusMode"})
    /\ ret.arg = <<"MF">>
    /\ ads[1].isConnected
    /\ ret.result = "NotSupported"

\* The cached shoot-mode string of the adapter, Undefined without one.
CachedShootMode == Cached(ads[1], "shootMode")

\* The field of the record that getDriveMode or getSelfTimerOption reads.
FieldOf(op) == IF op = "getDriveMode" THEN "driveMode" ELSE "selfTimer"

\* C26: on the newer-generation adapter getDriveMode and getSelfTimerOption
\* return what the reverse table holds for the cached shoot-mode string, and
\* fail with NotFound when the cached string has no reverse entry.
C26_ReverseLookupOrNotFound ==
    (NewerGenerationCall({"getDriveMode", "getSelfTimerOption"})
       /\ CachedShootMode # Undefined) =>
        IF CachedShootMode.scalar \in DOMAIN shootModeReverseMap
        THEN /\ ret.result = "value"
             /\ ret.value =
                  Scalar(shootModeReverseMap[CachedShootMode.scalar][FieldOf(ret.op)])
        ELSE ret.result = "NotFound"

\* The same for the cached strings that have a reverse entry, and NotFound
\* when no shoot-mode string is cached at all.
C26_KnownOrAbsent ==
    NewerGenerationCall({"getDriveMode", "getSelfTimerOption"}) =>
        IF CachedShootMode = Undefined THEN ret.result = "NotFound"
        ELSE CachedShootMode.scalar \in DOMAIN shootModeReverseMap =>
                /\ ret.result = "value"
                /\ ret.value =
                     Scalar(shootModeReverseMap[CachedShootMode.scalar][FieldOf(ret.op)])

\* The shoot-mode string that the forward table gives for a drive mode and a
\* timer option, the drive mode's "off" string when it lacks the option.
ModeOrOff(driveMode, selfTimerOption) ==
    IF selfTimerOption \in DOMAIN shootModeLookup[driveMode]
    THEN shootModeLookup[driveMode][selfTimerOption]
    ELSE shootModeLookup[driveMode]["off"]

\* C27: for every drive mode D of the forward table and every timer option
\* T, the newer generation's setShootMode(D, T) does not fail: it sends one
\* settings write of shootMode = shootModeLookup[D][T] when D has T, and of
\* shootModeLookup[D].off when it has not.
C27_SetShootModeFallsBackToOff ==
    (NewerGenerationCall({"setShootMode"})
       /\ ret.arg[1] \in DOMAIN shootModeLookup) =>
        /\ ret.result = "request"
        /\ ret.sent = <<Req("PUT", "/v1/params/camera",
                            "shootMode=" \o ModeOrOff(ret.arg[1], ret.arg[2]))>>

\* setShootMode('continuous', '2s'), an option that drive mode lacks, has
\* written shootMode=continuous.
C27_Witness ==
    /\ NewerGenerationCall({"setShootMode"})
    /\ ret.arg = <<"continuous", "2s">>
    /\ ret.sent = <<Req("PUT", "/v1/params/camera", "shootMode=continuous")>>

\* The display-refresh command and the requests that are settings writes.
RefreshCommand == Req("POST", "/_gr", "cmd=mode refresh")
IsSettingsWrite(request) ==
    request.method = "PUT" /\ request.path = "/v1/params/camera"

\* C28: setCaptureSettings sends the settings write and nothing else; on the
\* older generation one display-refresh command follows when, and only when,
\* the write has succeeded, and nothing follows the refresh; a failed write
\* is followed by no request; on the newer generation nothing follows the
\* write at all.
C28_RefreshOnlyAfterWrite ==
    /\ ret.op = "setCaptureSettings" =>
          Len(ret.sent) = 1 /\ IsSettingsWrite(ret.sent[1])
    /\ (ret.op = "succeeded" /\ ret.arg = <<"write">>) =>
          IF ads[1].gen = "GR2" THEN ret.sent = <<RefreshCommand>>
          ELSE ret.sent = <<>> /\ ret.result = "value"
    /\ (ret.op = "succeeded" /\ ret.arg = <<"refresh">>) =>
          ret.sent = <<>> /\ ret.result = "value"
    /\ ret.op = "failed" => ret.sent = <<>> /\ ret.result = "Transport"
    /\ \A i \in 1..Len(calls) : calls[i] = "refresh" => ads[1].gen = "GR2"

\* The write of an older-generation setCaptureSettings has succeeded and the
\* refresh command has gone out after it.
C28_Witness ==
    /\ ads[1].gen = "GR2"
    /\ ret.op = "succeeded"
    /\ ret.arg = <<"write">>
    /\ ret.sent = <<RefreshCommand>>
    /\ \E i \in 1..Len(calls) : calls[i] = "refresh"

\* The fetches of adapter 1 that await their response.
Pending == polls[<<1, "conn">>] + polls[<<1, "disc">>]

\* C29: while the adapter's poller runs, the timer's firing is never held
\* back by the fetches in flight (up to the model's bound on them, a tick
\* can be taken in every state), and each firing dispatches one more fetch.
C29_TicksDoNotWaitForFetches ==
    /\ (ads[1].polling /\ InFlight < MaxInFlight) => ENABLED PollTick(1)
    /\ last.op = "tick" =>
          /\ sent = <<"GET /v1/props">>
          /\ polls[<<1, last.branch>>] >= 1

\* A tick has dispatched a fetch while an earlier one was still in flight.
C29_Witness ==
    /\ last.op = "tick"
    /\ sent = <<"GET /v1/props">>
    /\ Pending >= 2

\* C30: the connected flag and the cache agree: isConnected is false if and
\* only if the cached snapshot is null.
C30_FlagAndCacheAgree == ~ads[1].isConnected <=> ads[1].info = Null

\* C30, amended: a connected adapter always has a cached snapshot; an
\* adapter that is not connected gets one only from a response to a fetch of
\* the connected branch that arrives after the disconnection.
C30_ConnectedHasCache ==
    /\ [](ads[1].isConnected => ads[1].info # Null)
    /\ [][(~ads[1].isConnected' /\ ads[1].info' # Null
             /\ (ads[1].isConnected \/ ads[1].info = Null)) =>
              /\ last'.op = "resolved"
              /\ last'.branch = "conn"
              /\ ~ads[1].isConnected]_vars

\* Of two overlapping fetches of the connected branch the first has failed
\* and the second has then resolved: the adapter is not connected and holds
\* the late snapshot.
C30_Witness ==
    /\ last.op = "resolved"
    /\ last.branch = "conn"
    /\ ~last.wasConnected
    /\ ~ads[1].isConnected
    /\ ads[1].info = last.data

\* ------------------------------------------------------------------------
\* Properties of the adapter after a disconnection
\* ------------------------------------------------------------------------
\* The adapter has just emitted Disconnected.
JustDisconnected ==
    /\ last.op = "rejected"
    /\ last.branch = "conn"
    /\ \E i \in 1..Len(emitted) : emitted[i].name = "disconnected"

\* C31: after the adapter has emitted Disconnected, the next step, unless it
\* starts the polling again, emits no Connected or change event and leaves
\* the cache as it is, also when that step is the response to a request
\* dispatched before the disconnection.
C31_QuietAfterDisconnected ==
    [][(JustDisconnected /\ last'.op # "startListeningToEvents") =>
          /\ ads'[1].info = ads[1].info
          /\ \A i \in 1..Len(emitted') : emitted'[i].name = "disconnected"]_vars

\* C31, amended: while the adapter's poller is stopped no fetch is
\* dispatched, and the cache changes or an event is emitted only by the
\* response to a fetch that was dispatched before; with none of these
\* pending the adapter is quiet.
C31_OnlyPendingResponsesAfterStop ==
    [][~ads[1].polling =>
          /\ Pending' <= Pending
          /\ (ads'[1].info # ads[1].info \/ emitted' # <<>>) =>
                 Pending' < Pending]_vars

\* The response to a fetch of the connected branch has arrived after the
\* disconnection: the stopped adapter has emitted a change event.
C31_Witness ==
    /\ last.op = "resolved"
    /\ last.branch = "conn"
    /\ ~last.wasPolling
    /\ ~last.wasConnected
    /\ last.prev = Null
    /\ \E i \in 1..Len(emitted) : emitted[i].name = "captureSettingsChanged"

C32_ConnectedAtMostOnce ==
    Count("connected") > 0 => ~last.wasConnected

\* Connected is emitted by the responses to the fetches of the disconnected
\* branch and by nothing else, once by each.
C32_OncePerResponse ==
    /\ Count("connected") > 0 <=> (last.op = "resolved" /\ last.branch = "disc")
    /\ Count("connected") <= 1

\* ------------------------------------------------------------------------
\* Properties of the facade's adapters
\* ------------------------------------------------------------------------
\* The adapters that are live: their poller is armed or forwarding handlers
\* of the facade are attached to them.
LiveAdapters ==
    {a \in AdapterIds : ads[a].gen # "none" /\ (ads[a].polling \/ ads[a].fwd # {})}

\* C33: at most one adapter created by the facade is live; a probe response
\* that arrives while the facade holds an adapter constructs none; and the
\* facade's listener list holds handlers of its current adapter only.
C33_AtMostOneLiveAdapter ==
    /\ Cardinality(LiveAdapters) <= 1
    /\ (last.op = "probeResolved" /\ last.hadAdapter # 0) => last.ad = 0
    /\ \A i \in 1..Len(adapterListeners) : adapterListeners[i].ad = adapter

\* While the facade holds no adapter and no probe is in flight but the one
\* that resolves, the response with a model makes exactly one adapter live,
\* the facade's, and the listener list holds its handlers only.
C33_OneProbeOneAdapter ==
    (last.op = "probeResolved" /\ last.hadAdapter = 0 /\ last.ad # 0
       /\ probes = 0 /\ Cardinality(LiveAdapters) <= 1) =>
        /\ LiveAdapters = {adapter}
        /\ \A i \in 1..Len(adapterListeners) : adapterListeners[i].ad = adapter

\* C34: after stopCameraDetectionAndPairing() has returned, the response to
\* an identity probe that was in flight at that time instantiates no adapter.
C34_NoAdapterAfterStop ==
    [][(last.op = "stopCameraDetectionAndPairing"
          /\ last'.op = "probeResolved") => last'.ad = 0]_vars

\* With the detection timer cleared and no probe in flight the facade gets
\* no new adapter as long as the timer stays cleared.
C34_NoProbeNoAdapter ==
    [][(~intervalId /\ probes = 0 /\ ~intervalId') =>
          adapter' \in {adapter, 0}]_vars

\* Adapter a has been discarded by facade.disconnect(): the facade no longer
\* holds it, its forwarding handlers are detached and its poller stopped,
\* and it has not emitted Disconnected since.
Discarded(a) ==
    /\ ads[a].gen # "none"
    /\ a # adapter
    /\ ads[a].once
    /\ ads[a].fwd = {}
    /\ ~ads[a].polling

\* Adapter a emits Disconnected in the step: a fetch of its connected branch
\* fails.
DisconnectedBy(a) ==
    last'.op = "rejected" /\ last'.branch = "conn" /\ last'.ad = a

\* C35: a Disconnected event that a discarded adapter emits has no effect on
\* the facade: no error is raised, and the facade's adapter, its listener
\* list and every other adapter (forwarding handlers, polling) stay as they
\* are.
C35_DiscardedAdapterIsInert ==
    [][\A a \in AdapterIds :
          (Discarded(a) /\ DisconnectedBy(a)) =>
             /\ ~unhandled'
             /\ adapter' = adapter
             /\ adapterListeners' = adapterListeners
             /\ \A b \in AdapterIds \ {a} : ads'[b] = ads[b]]_vars

\* The facade re-emits nothing of what a discarded adapter emits.
C35_DiscardedNotForwarded ==
    [][\A a \in AdapterIds :
          (Discarded(a) /\ last'.ad = a
             /\ last'.op \in {"resolved", "rejected"}) => femitted' = <<>>]_vars

\* C37: the adapter leaves the Connected state only because a poll fetch has
\* failed; when a listener of a change event throws during a tick whose
\* fetch succeeded, the adapter stays connected, keeps its cache and its
\* poller goes on.
C37_OnlyFetchFailureDisconnects ==
    /\ (last.wasConnected /\ ~ads[1].isConnected) => last.op = "rejected"
    /\ last.op = "listenerThrew" =>
          /\ ads[1].isConnected = last.wasConnected
          /\ ads[1].info = last.data
          /\ ads[1].polling = last.wasPolling
          /\ Count("disconnected") = 0

\* As long as no listener throws, only the failure of a fetch of the
\* connected branch takes the adapter out of the Connected state.
C37_WithoutThrowingListeners ==
    (last.op # "listenerThrew" /\ last.wasConnected /\ ~ads[1].isConnected) =>
        last.op = "rejected" /\ last.branch = "conn"

\* C40: once the device stays reachable while the detection loop runs, the
\* facade eventually holds an adapter that is connected (isConnected is
\* true), and the step in which the facade becomes connected re-emits the
\* adapter's Connected event.
C40_EventuallyConnected ==
    /\ (reachable /\ intervalId) ~> FacadeIsConnected
    /\ [][(~FacadeIsConnected /\ FacadeIsConnected') =>
              \E i \in 1..Len(femitted') : femitted'[i].name = "connected"]_vars

\* With the device reachable for good, the facade's adapter has connected
\* and the facade has emitted Connected.
C40_Witness ==
    /\ reachable
    /\ FacadeIsConnected
    /\ last.op = "resolved"
    /\ last.branch = "disc"
    /\ last.ad = adapter
    /\ \E i \in 1..Len(femitted) : femitted[i].name = "connected"

====
